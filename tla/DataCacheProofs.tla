---------------------------- MODULE DataCacheProofs ----------------------------
(***************************************************************************)
(* Proofs about DataCache, for any sizes of the set, the MSHR table and    *)
(* the miss queue: under every policy requests are answered once, an MSHR  *)
(* entry is awaited and the miss queue is never overrun; under those that  *)
(* leave a reserved sector reserved until its fill, fills find their line, *)
(* m_dirty is exact, no write is lost and hits have their data.            *)
(***************************************************************************)
EXTENDS DataCache, FoldingProofs, FiniteSetTheorems

-------------------------------------------------------------------------------
(* Sequences. *)

\* The positions of a sequence.
LEMMA Positions ==
  ASSUME NEW V, NEW q \in Seq(V)
  PROVE  /\ DOMAIN q = 1 .. Len(q) /\ Len(q) \in Nat /\ \A i \in DOMAIN q : q[i] \in V
         /\ Range(q) = {q[i] : i \in DOMAIN q} /\ Range(q) \subseteq V
         /\ q # << >> => /\ Head(q) = q[1] /\ Head(q) \in V /\ 1 \in DOMAIN q
                         /\ Tail(q) \in Seq(V) /\ Len(Tail(q)) = Len(q) - 1
                         /\ \A i \in DOMAIN Tail(q) : Tail(q)[i] = q[i + 1] /\ i + 1 \in DOMAIN q
                         /\ \A i \in DOMAIN q : i # 1 => i - 1 \in DOMAIN Tail(q) /\ Tail(q)[i - 1] = q[i]
         /\ q = << >> => DOMAIN q = {}
<1>1. DOMAIN q = 1 .. Len(q) /\ Len(q) \in Nat /\ \A i \in DOMAIN q : q[i] \in V
  OBVIOUS
<1>2. Range(q) = {q[i] : i \in DOMAIN q} /\ Range(q) \subseteq V
  BY <1>1 DEF Range
<1>3. ASSUME q # << >>
      PROVE  /\ Head(q) = q[1] /\ Head(q) \in V /\ 1 \in DOMAIN q
             /\ Tail(q) \in Seq(V) /\ Len(Tail(q)) = Len(q) - 1
             /\ \A i \in DOMAIN Tail(q) : Tail(q)[i] = q[i + 1] /\ i + 1 \in DOMAIN q
             /\ \A i \in DOMAIN q : i # 1 => i - 1 \in DOMAIN Tail(q) /\ Tail(q)[i - 1] = q[i]
  <2>1. Head(q) = q[1] /\ Head(q) \in V /\ 1 \in DOMAIN q /\ Len(q) > 0
    BY <1>1, <1>3
  <2>2. PICK r \in Seq(V) : r = Tail(q) /\ Len(r) = Len(q) - 1 /\ \A i \in 1 .. Len(r) : r[i] = q[i + 1]
    <3>1. Tail(q) \in Seq(V)
      BY <1>3
    <3>2. Len(Tail(q)) = Len(q) - 1
      BY <1>3
    <3>3. \A i \in 1 .. Len(Tail(q)) : Tail(q)[i] = q[i + 1]
      BY <1>3
    <3> QED BY <3>1, <3>2, <3>3
  <2>3. DOMAIN r = 1 .. Len(q) - 1
    BY <2>2
  <2>4. \A i \in DOMAIN r : r[i] = q[i + 1] /\ i + 1 \in DOMAIN q
    BY <1>1, <2>2, <2>3
  <2>5. \A i \in DOMAIN q : i # 1 => i - 1 \in DOMAIN r /\ (i - 1) + 1 = i
    BY <1>1, <2>3
  <2>6. \A i \in DOMAIN q : i # 1 => i - 1 \in DOMAIN r /\ r[i - 1] = q[i]
    BY <2>4, <2>5
  <2> QED BY <2>1, <2>2, <2>4, <2>6
<1>4. q = << >> => DOMAIN q = {}
  OBVIOUS
<1> QED BY <1>1, <1>2, <1>3, <1>4

\* A new element at the end.
LEMMA AtEnd ==
  ASSUME NEW V, NEW q \in Seq(V), NEW m \in V
  PROVE  /\ Append(q, m) \in Seq(V) /\ Len(Append(q, m)) = Len(q) + 1 /\ Append(q, m) # << >>
         /\ DOMAIN Append(q, m) = DOMAIN q \cup {Len(q) + 1} /\ Len(q) + 1 \notin DOMAIN q
         /\ Append(q, m)[Len(q) + 1] = m
         /\ \A i \in DOMAIN q : Append(q, m)[i] = q[i]
         /\ Range(Append(q, m)) = Range(q) \cup {m}
<1>1. PICK r \in Seq(V) : r = Append(q, m) /\ Len(r) = Len(q) + 1 /\ Len(q) \in Nat
                          /\ r[Len(q) + 1] = m /\ \A i \in 1 .. Len(q) : r[i] = q[i]
  <2>1. Append(q, m) \in Seq(V)
    OBVIOUS
  <2>2. Len(Append(q, m)) = Len(q) + 1 /\ Len(q) \in Nat
    OBVIOUS
  <2>3. Append(q, m)[Len(q) + 1] = m
    OBVIOUS
  <2>4. \A i \in 1 .. Len(q) : Append(q, m)[i] = q[i]
    OBVIOUS
  <2> QED BY <2>1, <2>2, <2>3, <2>4
<1>2. DOMAIN r = 1 .. Len(q) + 1 /\ DOMAIN q = 1 .. Len(q)
  BY <1>1
<1>3. DOMAIN r = DOMAIN q \cup {Len(q) + 1} /\ Len(q) + 1 \notin DOMAIN q
  BY <1>1, <1>2
<1>4. r # << >>
  BY <1>1
<1>5. Range(r) = Range(q) \cup {m}
  BY <1>1, <1>2, <1>3 DEF Range
<1> QED BY <1>1, <1>2, <1>3, <1>4, <1>5

\* Sets of ways have a first and a last element.
LEMMA FirstWay ==
  ASSUME NEW W \in SUBSET Way, W # {}
  PROVE  Min(W) \in W /\ Max(W) \in W
<1>1. W \in SUBSET Nat /\ Ways \in Nat /\ \A w \in W : w <= Ways
  BY CacheAssumption DEF Way
<1>2. \E x \in W : \A y \in W : x <= y
  BY <1>1, LeastExists
<1>3. \E x \in W : \A y \in W : x >= y
  <2> DEFINE U == {Ways - w : w \in W}
  <2>1. U \in SUBSET Nat /\ U # {}
    <3>1. ASSUME NEW w \in W PROVE Ways - w \in Nat
      <4>1. w \in Nat /\ w <= Ways /\ Ways \in Nat
        BY <1>1
      <4> QED BY <4>1
    <3> QED BY <3>1
  <2>2. PICK x \in U : \A y \in U : x <= y
    BY <2>1, LeastExists
  <2>3. PICK w \in W : x = Ways - w
    OBVIOUS
  <2>4. \A v \in W : Ways - w <= Ways - v
    BY <2>2, <2>3
  <2>5. \A v \in W : w >= v
    BY <1>1, <2>4
  <2> QED BY <2>5
<1> QED BY <1>2, <1>3 DEF Min, Max

-------------------------------------------------------------------------------
(* The tag array. *)

TagsOK ==
  /\ config \in Configs
  /\ line \in [Way -> Line]
  /\ \A w \in Way : line[w].tag \notin Blocks => IsInvalid(line[w])
  /\ order \in Seq(Way) /\ Range(order) = Way
  /\ dirty \in Int /\ used \in BOOLEAN

\* A victim is a line that may be replaced.
LEMMA VictimIs ==
  ASSUME TagsOK, Replaceable # {}
  PROVE  Victim \in Replaceable /\ Victim \in Way
<1>1. Replaceable \in SUBSET Way
  BY DEF Replaceable
<1> DEFINE invalid == {w \in Replaceable : IsInvalid(line[w])}
           old == Only(order, Replaceable)
<1>2. CASE invalid # {}
  BY <1>1, <1>2, FirstWay DEF Victim
<1>3. CASE invalid = {}
  <2>1. order \in Seq(Way) /\ old \in Seq(Way)
    BY OnlyType DEF TagsOK
  <2>2. PICK w : w \in Replaceable
    OBVIOUS
  <2>3. \E i \in 1 .. Len(order) : order[i] = w
    BY <1>1, <2>1, <2>2, Positions DEF TagsOK
  <2>4. \E i \in 1 .. Len(old) : old[i] = w
    BY <2>1, <2>2, <2>3, OnlyElements
  <2>5. old # << >>
    BY <2>4
  <2>6. Head(old) = old[1] /\ 1 \in 1 .. Len(old)
    BY <2>1, <2>5, Positions
  <2>7. old[1] \in Replaceable
    BY <2>1, <2>6, OnlyElements
  <2>8. Victim = Head(old)
    BY <1>3 DEF Victim
  <2> QED BY <1>1, <2>6, <2>7, <2>8
<1> QED BY <1>2, <1>3

\* What a probe finds.
LEMMA ProbeFinds ==
  ASSUME TagsOK, NEW a \in Addr, NEW wr, NEW p, p = Probe(a, wr)
  PROVE  /\ p.status \in {"HIT", "HIT_RESERVED", "SECTOR_MISS", "MISS", "RESERVATION_FAIL"}
         /\ p.status # "RESERVATION_FAIL" => p.way \in Way
         /\ p.status \in {"HIT", "HIT_RESERVED", "SECTOR_MISS"} =>
              line[p.way].tag = a[1] /\ ~IsInvalid(line[p.way])
         /\ p.status = "HIT_RESERVED" => line[p.way].status[a[2]] = "RESERVED"
         /\ p.status = "HIT" => line[p.way].status[a[2]] \in {"VALID", "MODIFIED"}
         /\ p.status = "SECTOR_MISS" =>
              /\ line[p.way].status[a[2]] \notin {"VALID", "RESERVED"}
              /\ line[p.way].status[a[2]] # "MODIFIED" \/ ~line[p.way].readable[a[2]]
         /\ p.status = "MISS" => /\ p.way \in Replaceable
                                 /\ \A w \in Way : line[w].tag = a[1] => IsInvalid(line[w])
<1> DEFINE match == {w \in Way : line[w].tag = a[1] /\ ~IsInvalid(line[w])}
<1>1. CASE match # {}
  <2>1. Min(match) \in match
    <3>1. match \in SUBSET Way
      OBVIOUS
    <3> QED BY <1>1, <3>1, FirstWay
  <2>2. PICK w \in match : w = Min(match)
    BY <2>1
  <2>3. p = [way |-> w,
             status |-> IF line[w].status[a[2]] = "RESERVED" THEN "HIT_RESERVED"
                        ELSE IF \/ line[w].status[a[2]] = "VALID"
                                \/ line[w].status[a[2]] = "MODIFIED" /\ (wr \/ line[w].readable[a[2]])
                        THEN "HIT" ELSE "SECTOR_MISS"]
    BY <1>1, <2>2 DEF Probe
  <2> QED BY <2>3
<1>2. CASE match = {} /\ Replaceable = {}
  BY <1>2 DEF Probe
<1>3. CASE match = {} /\ Replaceable # {}
  <2>1. p = [way |-> Victim, status |-> "MISS"]
    BY <1>3 DEF Probe
  <2> QED BY <1>3, <2>1, VictimIs
<1> QED BY <1>1, <1>2, <1>3

\* The lines that the operations of the tag array make.
LEMMA AccessedIs ==
  ASSUME TagsOK, NEW a \in Addr, NEW wr, NEW p, p = Probe(a, wr), p.status # "RESERVATION_FAIL"
  PROVE  p.way \in Way /\ Accessed(a, p) \in Line /\ Accessed(a, p).tag = a[1] /\ a[1] \in Blocks
<1>1. a[1] \in Blocks /\ a[2] \in Sectors
  BY DEF Addr
<1>2. p.way \in Way /\ p.status \in {"HIT", "HIT_RESERVED", "SECTOR_MISS", "MISS"}
  BY ProbeFinds
<1>3. PICK l \in Line : l = line[p.way]
  BY <1>2 DEF TagsOK
<1>4. CASE p.status = "MISS"
  <2>1. EmptyLine \in Line
    BY DEF EmptyLine, Line, State
  <2>2. [EmptyLine EXCEPT !.tag = a[1], !.status[a[2]] = "RESERVED"] \in Line
    BY <1>1, <2>1 DEF Line, State
  <2>3. [EmptyLine EXCEPT !.tag = a[1], !.status[a[2]] = "RESERVED"].tag = a[1]
    BY DEF EmptyLine
  <2> QED BY <1>1, <1>2, <1>4, <2>2, <2>3 DEF Accessed
<1>5. CASE p.status = "SECTOR_MISS"
  <2>1. l.tag = a[1]
    BY <1>3, <1>5, ProbeFinds
  <2> DEFINE n == [l EXCEPT !.status[a[2]] = "RESERVED",
                            !.modified_on_fill[a[2]] = l.status[a[2]] = "MODIFIED",
                            !.readable_on_fill[a[2]] = FALSE, !.readable[a[2]] = TRUE]
  <2>2. n \in Line /\ n.tag = l.tag
    BY <1>1 DEF Line, State
  <2>3. Accessed(a, p) = n
    BY <1>3, <1>5 DEF Accessed
  <2> QED BY <1>1, <1>2, <2>1, <2>2, <2>3
<1>6. CASE p.status \in {"HIT", "HIT_RESERVED"}
  <2>1. Accessed(a, p) = l /\ l.tag = a[1]
    BY <1>3, <1>6, ProbeFinds DEF Accessed
  <2> QED BY <1>1, <1>2, <2>1
<1> QED BY <1>2, <1>4, <1>5, <1>6

LEMMA ModifiedIs ==
  ASSUME NEW l \in Line, NEW m, m.addr \in Addr, m.bytes \in Masks
  PROVE  Modified(l, m) \in Line /\ Modified(l, m).tag = l.tag
<1> DEFINE With(s, bs) == [l EXCEPT !.status[s] = "MODIFIED", !.byte_mask[s] = bs]
<1>1. m.addr[2] \in Sectors /\ m.bytes \subseteq Bytes
  BY DEF Addr, Bytes
<1>2. l.byte_mask[m.addr[2]] \cup m.bytes \in SUBSET Bytes
  BY <1>1 DEF Line
<1>3. Modified(l, m) = With(m.addr[2], l.byte_mask[m.addr[2]] \cup m.bytes)
  BY DEF Modified, Line
<1>4. ASSUME NEW s \in Sectors, NEW bs \in SUBSET Bytes
      PROVE  With(s, bs) \in Line /\ With(s, bs).tag = l.tag
  BY DEF Line, State
<1> HIDE DEF With
<1> QED BY <1>1, <1>2, <1>3, <1>4

LEMMA ReadableIs ==
  ASSUME NEW l \in Line, NEW s \in Sectors
  PROVE  Readable(l, s) \in Line /\ Readable(l, s).tag = l.tag
BY DEF Readable, Line

LEMMA FilledIs ==
  ASSUME NEW l \in Line, NEW m, m.addr \in Addr, m.bytes \in Masks
  PROVE  Filled(l, m) \in Line /\ Filled(l, m).tag = l.tag
<1> DEFINE s == m.addr[2]
           st == IF l.modified_on_fill[s] THEN "MODIFIED" ELSE "VALID"
           bm == IF l.byte_mask_on_fill THEN l.byte_mask[s] \cup m.bytes ELSE l.byte_mask[s]
           rd == l.readable[s] \/ l.readable_on_fill[s]
           With(t, x, y, z) == [l EXCEPT !.status[t] = x, !.readable[t] = y,
                                         !.readable_on_fill[t] = FALSE, !.byte_mask[t] = z]
<1>1. s \in Sectors /\ m.bytes \subseteq Bytes
  BY DEF Addr, Bytes
<1>2. bm \in SUBSET Bytes /\ st \in State /\ rd \in BOOLEAN
  BY <1>1 DEF Line, State
<1>3. Filled(l, m) = With(s, st, rd, bm)
  BY DEF Filled, Line
<1>4. ASSUME NEW t \in Sectors, NEW x \in State, NEW y \in BOOLEAN, NEW z \in SUBSET Bytes
      PROVE  With(t, x, y, z) \in Line /\ With(t, x, y, z).tag = l.tag
  BY DEF Line
<1> HIDE DEF s, st, bm, rd, With
<1> QED BY <1>1, <1>2, <1>3, <1>4

\* A way that is accessed becomes the newest.
LEMMA OrderIs ==
  ASSUME TagsOK, NEW p, p.way \in Way
  PROVE  OrderAfter(p) \in Seq(Way) /\ Range(OrderAfter(p)) = Way
<1> PICK S : S = Way \ {p.way}
  OBVIOUS
<1> DEFINE o == Only(order, S)
<1>1. order \in Seq(Way) /\ Range(order) = Way
  BY DEF TagsOK
<1>2. o \in Seq(Way)
  BY <1>1, OnlyType
<1>3. Append(o, p.way) \in Seq(Way) /\ Range(Append(o, p.way)) = Range(o) \cup {p.way}
  <2> HIDE DEF o
  <2> QED BY <1>2, AtEnd
<1>4. ASSUME NEW w \in Way, w # p.way
      PROVE  w \in Range(o)
  <2>1. \E i \in 1 .. Len(order) : order[i] = w
    BY <1>1, Positions
  <2>2. \E i \in 1 .. Len(o) : o[i] = w
    <3>1. w \in S
      BY <1>4
    <3>2. order \in Seq(Way)
      BY <1>1
    <3> QED BY ONLY <3>1, <3>2, <2>1, OnlyElements
  <2> QED BY <1>2, <2>2, Positions
<1>5. Range(o) \subseteq Way
  BY <1>2, Positions
<1>6. Range(Append(o, p.way)) = Way
  BY <1>3, <1>4, <1>5
<1> QED BY <1>1, <1>3, <1>6 DEF OrderAfter

\* An access that makes the line l of the way it finds.
LEMMA TagsStep ==
  ASSUME TagsOK, NEW p, p.way \in Way, NEW l \in Line, l.tag \in Blocks, NEW d \in Int,
         SetTags(p, l, d), config' = config
  PROVE  TagsOK' /\ line'[p.way].tag \in Blocks
                 /\ \A w \in Way : line[w].tag \in Blocks => line'[w].tag \in Blocks
<1>1. line' = [line EXCEPT ![p.way] = l] /\ dirty' = d /\ order' = OrderAfter(p) /\ used' = TRUE
  BY DEF SetTags
<1>2. line' \in [Way -> Line] /\ line'[p.way] = l /\ \A w \in Way : w # p.way => line'[w] = line[w]
  BY <1>1 DEF TagsOK
<1>3. \A w \in Way : line'[w].tag \notin Blocks => IsInvalid(line'[w])
  BY <1>2 DEF TagsOK
<1>4. order' \in Seq(Way) /\ Range(order') = Way
  BY <1>1, OrderIs
<1>5. TagsOK'
  BY <1>1, <1>2, <1>3, <1>4 DEF TagsOK
<1> QED BY <1>2, <1>5

\* An eviction sends at most one write-back.
LEMMA WriteBacksIs ==
  ASSUME TagsOK, NEW p, p.way \in Way
  PROVE  WriteBacks(p) = << >> \/ \E b \in WriteBack : WriteBacks(p) = <<b>>
<1>1. CASE IsModified(line[p.way])
  <2>1. line[p.way].tag \in Blocks
    BY <1>1 DEF TagsOK, IsModified, IsInvalid
  <2> DEFINE S == {s \in Sectors : line[p.way].status[s] = "MODIFIED"}
             b == [kind |-> "writeback", block |-> line[p.way].tag, sectors |-> S]
  <2>2. b \in WriteBack
    BY <2>1 DEF WriteBack
  <2>3. WriteBacks(p) = << >> \/ WriteBacks(p) = <<b>>
    BY DEF WriteBacks
  <2> QED BY <2>2, <2>3
<1>2. CASE ~IsModified(line[p.way])
  BY <1>2 DEF WriteBacks
<1> QED BY <1>1, <1>2

-------------------------------------------------------------------------------
(* Accesses, as the MSHR table and the miss queue see them. *)

Msg == Request \cup Fetch
Item == Msg \cup WriteBack

MissesOK ==
  /\ DOMAIN mshr \subseteq Addr
  /\ \A a \in DOMAIN mshr : mshr[a] \in Seq(Msg) /\ mshr[a] # << >>
  /\ response \in Seq(Addr)
  /\ queue \in Seq(Item) /\ Len(queue) <= MissQueueSize
  /\ below \subseteq Msg
  /\ fields \subseteq [mf : Msg, way : Way, left : 1 .. SubReads]
  /\ \A f \in fields : f.mf.kind # "write" /\ line[f.way].tag \in Blocks
  /\ head \in Request \cup {None} /\ waiting \subseteq Ids

\* No shipped configuration keeps a write it does not answer: fetch-on-write comes with
\* write-back, lazy fetch-on-read with write-back or write-through.
KeptWritesAnswered ==
  \A c \in Configs :
    /\ c.alloc = "FETCH_ON_WRITE" => c.write = "WRITE_BACK"
    /\ c.alloc = "LAZY_FETCH_ON_READ" => c.write \in {"WRITE_BACK", "WRITE_THROUGH"}

\* The miss queue is q, or q and a write-back.
Grows(q) == queue' = q \/ \E b \in WriteBack : queue' = Append(q, b)

\* The request is answered at once.
Keeps == Grows(queue) /\ UNCHANGED <<mshr, response, fields, below>> /\ Answer

\* The request is a write and is sent to the memory.
Sends == /\ IsWrite(head) /\ queue' = Append(queue, head)
         /\ UNCHANGED <<mshr, response, fields, below>> /\ Wait

\* m joins an MSHR entry, or gets one and is sent to the memory.
Joins(m, q) ==
  /\ m.addr \in DOMAIN mshr
  /\ mshr' = [mshr EXCEPT ![m.addr] = Append(mshr[m.addr], m)]
  /\ Grows(q) /\ UNCHANGED fields
Starts(m, q, w) ==
  /\ m.addr \notin DOMAIN mshr
  /\ mshr' = [b \in (DOMAIN mshr) \cup {m.addr} |-> IF b = m.addr THEN <<m>> ELSE mshr[b]]
  /\ Grows(Append(q, m))
  /\ fields' = fields \cup {[mf |-> m, way |-> w, left |-> SubReads]}
Asks(m, q, w) ==
  /\ m \in Msg /\ m.kind # "write" /\ w \in Way /\ line'[w].tag \in Blocks
  /\ Joins(m, q) \/ Starts(m, q, w)
  /\ UNCHANGED <<response, below>> /\ Wait
Fetches == \E m, w : m.id = head.id /\ Asks(m, queue, w)
SendsAndFetches == \E m, w : m.id = None /\ IsWrite(head) /\ Asks(m, Append(queue, head), w)

\* What every access does.
Taken ==
  /\ head # None /\ UNCHANGED config /\ TagsOK'
  /\ \A w \in Way : line[w].tag \in Blocks => line'[w].tag \in Blocks
  /\ Len(queue') <= MissQueueSize
  /\ Keeps \/ Sends \/ Fetches \/ SendsAndFetches

\* The queue after an eviction.
LEMMA GrowsIs ==
  ASSUME TagsOK, NEW p, p.way \in Way, NEW q \in Seq(Item), queue' = q \o WriteBacks(p)
  PROVE  Grows(q) /\ Len(queue') <= Len(q) + 1
<1>1. CASE WriteBacks(p) = << >>
  <2>1. q \o << >> = q /\ Len(q) \in Nat
    OBVIOUS
  <2> QED BY <1>1, <2>1 DEF Grows
<1>2. CASE \E b \in WriteBack : WriteBacks(p) = <<b>>
  <2>1. PICK b \in WriteBack : queue' = q \o <<b>>
    BY <1>2
  <2>2. q \o <<b>> = Append(q, b) /\ b \in Item
    BY DEF Item
  <2>3. Len(Append(q, b)) = Len(q) + 1 /\ Len(q) \in Nat
    BY <2>2
  <2> QED BY <2>1, <2>2, <2>3 DEF Grows
<1> QED BY <1>1, <1>2, WriteBacksIs

\* A fetch that is sent when there is room for it and a write-back.
LEMMA SendReadIs ==
  ASSUME TagsOK, NEW p, p.way \in Way, NEW q \in Seq(Item), NEW m \in Msg, m.kind # "write",
         line'[p.way].tag \in Blocks, Len(q) + 2 <= MissQueueSize,
         SendRead(m, q, p), Wait
  PROVE  Asks(m, q, p.way) /\ Len(queue') <= MissQueueSize
<1>1. MissQueueSize \in Nat /\ Len(q) \in Nat /\ m \in Item
  BY CacheAssumption DEF Item
<1>2. UNCHANGED <<response, below>>
  BY DEF SendRead
<1>3. CASE m.addr \in DOMAIN mshr
  <2>1. mshr' = [mshr EXCEPT ![m.addr] = Append(mshr[m.addr], m)] /\ UNCHANGED fields
        /\ queue' = q \o WriteBacks(p)
    BY <1>3 DEF SendRead
  <2>2. Grows(q) /\ Len(queue') <= Len(q) + 1
    BY <2>1, GrowsIs
  <2>3. Len(queue') <= MissQueueSize
    <3>1. queue' \in Seq(Item)
      BY <2>2, <1>1 DEF Grows, Item
    <3>2. Len(queue') \in Nat
      BY <3>1
    <3> QED BY <1>1, <2>2, <3>2
  <2> QED BY <1>2, <1>3, <2>1, <2>2, <2>3 DEF Asks, Joins
<1>4. CASE m.addr \notin DOMAIN mshr
  <2>1. /\ mshr' = [b \in (DOMAIN mshr) \cup {m.addr} |-> IF b = m.addr THEN <<m>> ELSE mshr[b]]
        /\ fields' = fields \cup {[mf |-> m, way |-> p.way, left |-> SubReads]}
        /\ queue' = Append(q, m) \o WriteBacks(p)
    BY <1>4 DEF SendRead
  <2>2. PICK r : r = Append(q, m)
    OBVIOUS
  <2>3. r \in Seq(Item) /\ Len(r) = Len(q) + 1
    BY <1>1, <2>2
  <2>4. Grows(r) /\ Len(queue') <= Len(r) + 1
    BY <2>1, <2>2, <2>3, GrowsIs
  <2>5. Len(queue') <= MissQueueSize
    <3>1. queue' \in Seq(Item)
      BY <2>3, <2>4 DEF Grows, Item
    <3>2. Len(queue') \in Nat
      BY <3>1
    <3> QED BY <1>1, <2>3, <2>4, <3>2
  <2> QED BY <1>2, <1>4, <2>1, <2>2, <2>4, <2>5 DEF Asks, Starts
<1> QED BY <1>3, <1>4

\* A request at the head of the queue, before an access.
AtHead == TagsOK /\ MissesOK /\ head # None /\ UNCHANGED config

LEMMA HeadIs ==
  ASSUME AtHead
  PROVE  /\ head \in Request /\ head \in Msg /\ head \in Item /\ head.id \in Ids
         /\ head.addr \in Addr /\ head.addr[2] \in Sectors /\ head.bytes \in Masks
         /\ FetchFor(None) \in Msg /\ FetchFor(None).id = None
         /\ FetchFor(head.id) \in Msg /\ FetchFor(head.id).id = head.id
         /\ \A id : FetchFor(id).kind = "fetch"
<1>1. head \in Request
  BY DEF AtHead, MissesOK
<1>2. head \in Msg /\ head \in Item /\ head.id \in Ids /\ head.addr \in Addr /\ head.bytes \in Masks
  BY <1>1 DEF Msg, Item, Request
<1>3. head.addr[2] \in Sectors
  BY <1>2 DEF Addr
<1>4. \A id \in Ids \cup {None} : FetchFor(id) \in Fetch
  BY <1>2 DEF FetchFor, Fetch
<1>5. \A id : FetchFor(id).kind = "fetch" /\ FetchFor(id).id = id
  BY DEF FetchFor
<1> QED BY <1>1, <1>2, <1>3, <1>4, <1>5 DEF Msg

LEMMA FoundIs ==
  ASSUME AtHead, NEW p, p = Probed, p.status # "RESERVATION_FAIL"
  PROVE  /\ p.way \in Way /\ line[p.way] \in Line
         /\ p.status = "HIT" => line[p.way].tag \in Blocks
         /\ Accessed(head.addr, p) \in Line /\ Accessed(head.addr, p).tag \in Blocks
         /\ DirtyAfter(head.addr, p) \in Int
         /\ \A d \in Int : \A l : DirtyWith(d, l) \in Int
<1>1. TagsOK /\ head.addr \in Addr /\ p = Probe(head.addr, IsWrite(head))
  BY HeadIs DEF AtHead, Probed
<1>2. p.way \in Way /\ Accessed(head.addr, p) \in Line /\ Accessed(head.addr, p).tag \in Blocks
  BY <1>1, AccessedIs
<1>3. line[p.way] \in Line
  BY <1>1, <1>2 DEF TagsOK
<1>4. p.status = "HIT" => line[p.way].tag \in Blocks
  <2>1. p.status = "HIT" => ~IsInvalid(line[p.way])
    BY <1>1, ProbeFinds
  <2> QED BY <1>1, <1>2, <2>1 DEF TagsOK
<1>5. DirtyAfter(head.addr, p) \in Int
  BY <1>1 DEF DirtyAfter, TagsOK
<1>6. \A d \in Int : \A l : DirtyWith(d, l) \in Int
  BY DEF DirtyWith
<1> QED BY <1>2, <1>3, <1>4, <1>5, <1>6

\* Room for n entries in the miss queue.
LEMMA RoomIs ==
  ASSUME MissesOK, NEW n \in Nat, ~QueueFull(n)
  PROVE  Len(queue) + n + 1 <= MissQueueSize
<1>1. Len(queue) \in Nat /\ MissQueueSize \in Nat
  BY CacheAssumption DEF MissesOK
<1> QED BY <1>1 DEF QueueFull

\* An access that changes the tags and is answered.
LEMMA TakenKeeps ==
  ASSUME AtHead, NEW p, p.way \in Way, NEW l \in Line, l.tag \in Blocks, NEW d \in Int,
         SetTags(p, l, d), Keeps, Len(queue') <= MissQueueSize
  PROVE  Taken
<1>1. TagsOK' /\ \A w \in Way : line[w].tag \in Blocks => line'[w].tag \in Blocks
  BY TagsStep DEF AtHead
<1> QED BY <1>1 DEF Taken, AtHead

LEMMA ReadHitTaken ==
  ASSUME AtHead, ReadHit PROVE Taken
<1> PICK p : p = Probed
  OBVIOUS
<1> DEFINE l == line[p.way]
<1>1. p.status = "HIT" /\ p.way \in Way /\ l \in Line /\ l.tag \in Blocks
  BY FoundIs DEF ReadHit
<1>2. Keeps /\ Len(queue') <= MissQueueSize
  BY DEF ReadHit, misses, Keeps, Grows, AtHead, MissesOK
<1>3. dirty \in Int /\ head.addr \in Addr /\ head.bytes \in Masks
  BY HeadIs DEF AtHead, TagsOK
<1>4. CASE head.kind = "atomic"
  <2>1. SetTags(p, Modified(l, head), DirtyWith(dirty, l))
    BY <1>4 DEF ReadHit
  <2>2. Modified(l, head) \in Line /\ Modified(l, head).tag \in Blocks
    BY <1>1, <1>3, ModifiedIs
  <2>3. DirtyWith(dirty, l) \in Int
    BY <1>3 DEF DirtyWith
  <2> QED BY <1>1, <1>2, <2>1, <2>2, <2>3, TakenKeeps
<1>5. CASE head.kind # "atomic"
  <2>1. SetTags(p, l, dirty)
    BY <1>5 DEF ReadHit
  <2> QED BY <1>1, <1>2, <1>3, <2>1, TakenKeeps
<1> QED BY <1>4, <1>5

LEMMA ReadMissTaken ==
  ASSUME AtHead, ReadMiss PROVE Taken
<1> PICK p : p = Probed
  OBVIOUS
<1>1. /\ p.status # "RESERVATION_FAIL" /\ ~QueueFull(1) /\ head.kind # "write"
      /\ SetTags(p, Accessed(head.addr, p), DirtyAfter(head.addr, p))
      /\ SendRead(head, queue, p) /\ Wait
  BY DEF ReadMiss, IsWrite
<1>2. /\ p.way \in Way /\ Accessed(head.addr, p) \in Line /\ Accessed(head.addr, p).tag \in Blocks
      /\ DirtyAfter(head.addr, p) \in Int
  BY <1>1, FoundIs
<1>3. TagsOK /\ MissesOK /\ config' = config /\ head # None
  BY DEF AtHead
<1>4. TagsOK' /\ line'[p.way].tag \in Blocks
      /\ \A w \in Way : line[w].tag \in Blocks => line'[w].tag \in Blocks
  BY <1>1, <1>2, <1>3, TagsStep
<1>5. Len(queue) + 2 <= MissQueueSize
  <2>1. Len(queue) + 1 + 1 <= MissQueueSize
    BY <1>1, <1>3, RoomIs
  <2>2. Len(queue) \in Nat /\ MissQueueSize \in Nat
    BY <1>3, CacheAssumption DEF MissesOK
  <2> QED BY <2>1, <2>2
<1>6. queue \in Seq(Item) /\ head \in Msg
  BY <1>3, HeadIs DEF MissesOK
<1>7. Asks(head, queue, p.way) /\ Len(queue') <= MissQueueSize
  BY <1>1, <1>2, <1>3, <1>4, <1>5, <1>6, SendReadIs
<1> QED BY <1>3, <1>4, <1>7 DEF Taken, Fetches

\* A write that is sent when there is room for one entry.
LEMMA SendsIs ==
  ASSUME AtHead, ~QueueFull(0), IsWrite(head), queue' = Append(queue, head),
         UNCHANGED <<mshr, response, fields, below>>, Wait
  PROVE  Sends /\ Len(queue') <= MissQueueSize
<1>1. MissesOK /\ queue \in Seq(Item) /\ head \in Item
  BY HeadIs DEF AtHead, MissesOK
<1>2. Len(queue) + 0 + 1 <= MissQueueSize /\ Len(queue) \in Nat /\ MissQueueSize \in Nat
  BY <1>1, RoomIs, CacheAssumption
<1>3. Len(Append(queue, head)) = Len(queue) + 1
  BY <1>1
<1> QED BY <1>2, <1>3 DEF Sends

LEMMA TakenSends ==
  ASSUME AtHead, NEW p, p.way \in Way, NEW l \in Line, l.tag \in Blocks, NEW d \in Int,
         SetTags(p, l, d), Sends, Len(queue') <= MissQueueSize
  PROVE  Taken
<1>1. TagsOK' /\ \A w \in Way : line[w].tag \in Blocks => line'[w].tag \in Blocks
  BY TagsStep DEF AtHead
<1> QED BY <1>1 DEF Taken, AtHead

LEMMA WriteHitTaken ==
  ASSUME AtHead, WriteHit PROVE Taken
<1> PICK p : p = Probed
  OBVIOUS
<1> DEFINE l == line[p.way]
           n == Readable(Modified(l, head), head.addr[2])
<1>1. /\ p.status = "HIT" /\ p.way \in Way /\ l \in Line /\ l.tag \in Blocks
      /\ DirtyWith(dirty, l) \in Int /\ IsWrite(head)
  <2>1. dirty \in Int
    BY DEF AtHead, TagsOK
  <2> QED BY <2>1, FoundIs DEF WriteHit
<1>2. head.addr \in Addr /\ head.bytes \in Masks /\ head.addr[2] \in Sectors
  BY HeadIs
<1>3. n \in Line /\ n.tag \in Blocks
  <2>1. Modified(l, head) \in Line /\ Modified(l, head).tag \in Blocks
    BY <1>1, <1>2, ModifiedIs
  <2> QED BY <1>2, <2>1, ReadableIs
<1>4. CASE WriteHitThrough(p)
  <2>1. SetTags(p, n, DirtyWith(dirty, l))
    BY <1>4 DEF WriteHitThrough
  <2>2. Sends /\ Len(queue') <= MissQueueSize
    <3>1. /\ ~QueueFull(0) /\ queue' = Append(queue, head)
          /\ UNCHANGED <<mshr, response, fields, below>> /\ Wait
      BY <1>4 DEF WriteHitThrough
    <3> QED BY ONLY <3>1, <1>1, SendsIs, AtHead
  <2> QED BY <1>1, <1>3, <2>1, <2>2, TakenSends
<1>5. CASE WriteHitBack(p)
  <2>1. SetTags(p, n, DirtyWith(dirty, l))
    BY <1>5 DEF WriteHitBack
  <2>2. Keeps /\ Len(queue') <= MissQueueSize
    BY <1>5 DEF WriteHitBack, misses, Keeps, Grows, AtHead, MissesOK
  <2> QED BY <1>1, <1>3, <2>1, <2>2, TakenKeeps
<1>6. CASE WriteHitEvict(p)
  <2>1. Sends /\ Len(queue') <= MissQueueSize
    <3>1. /\ ~QueueFull(0) /\ queue' = Append(queue, head)
          /\ UNCHANGED <<mshr, response, fields, below>> /\ Wait
      BY <1>6 DEF WriteHitEvict
    <3> QED BY ONLY <3>1, <1>1, SendsIs, AtHead
  <2>2. line' = [line EXCEPT ![p.way].status[head.addr[2]] = "INVALID"]
        /\ UNCHANGED <<config, order, dirty, used>>
    BY <1>6 DEF WriteHitEvict, AtHead
  <2> DEFINE k == [l EXCEPT !.status[head.addr[2]] = "INVALID"]
  <2>3. k \in Line /\ k.tag = l.tag
    BY <1>1, <1>2 DEF Line, State
  <2>4. TagsOK
    BY DEF AtHead
  <2>5. line' = [line EXCEPT ![p.way] = k]
    BY <1>1, <2>2, <2>4 DEF TagsOK
  <2> HIDE DEF k
  <2>6. line' \in [Way -> Line] /\ line'[p.way] = k /\ \A w \in Way : w # p.way => line'[w] = line[w]
    BY <1>1, <2>3, <2>4, <2>5 DEF TagsOK
  <2>7. \A w \in Way : line[w].tag \in Blocks => line'[w].tag \in Blocks
    BY <2>3, <2>6
  <2>8. TagsOK'
    <3>1. \A w \in Way : line'[w].tag \notin Blocks => IsInvalid(line'[w])
      <4>1. k.tag \in Blocks
        BY <1>1, <2>3
      <4> QED BY <2>4, <2>6, <4>1 DEF TagsOK
    <3> QED BY <2>2, <2>4, <2>6, <3>1 DEF TagsOK
  <2> QED BY <2>1, <2>7, <2>8 DEF Taken, AtHead
<1> QED BY <1>4, <1>5, <1>6 DEF WriteHit

\* An access that sends a fetch, when there is room for it and a write-back.
LEMMA TakenAsks ==
  ASSUME AtHead, NEW p, p.way \in Way, NEW l \in Line, l.tag \in Blocks, NEW d \in Int,
         SetTags(p, l, d), NEW q \in Seq(Item), Len(q) + 2 <= MissQueueSize,
         NEW m \in Msg, m.kind # "write", SendRead(m, q, p), Wait,
         (m.id = head.id /\ q = queue) \/ (m.id = None /\ IsWrite(head) /\ q = Append(queue, head))
  PROVE  Taken
<1>1. TagsOK /\ config' = config /\ head # None
  BY DEF AtHead
<1>2. TagsOK' /\ line'[p.way].tag \in Blocks
      /\ \A w \in Way : line[w].tag \in Blocks => line'[w].tag \in Blocks
  BY <1>1, TagsStep
<1>3. Asks(m, q, p.way) /\ Len(queue') <= MissQueueSize
  BY <1>1, <1>2, SendReadIs
<1>4. Fetches \/ SendsAndFetches
  BY <1>3 DEF Fetches, SendsAndFetches
<1> QED BY <1>1, <1>2, <1>3, <1>4 DEF Taken

LEMMA WriteMissNaiveTaken ==
  ASSUME AtHead, NEW p, p = Probed, p.status # "RESERVATION_FAIL", IsWrite(head), WriteMissNaive(p)
  PROVE  Taken
<1> PICK q : q = Append(queue, head)
  OBVIOUS
<1>1. ~QueueFull(2) /\ CanSendRead(head.addr, queue)
  BY DEF WriteMissNaive
<1>2. queue \in Seq(Item) /\ head \in Item /\ MissesOK
  BY HeadIs DEF AtHead, MissesOK
<1>3. q \in Seq(Item) /\ Len(q) = Len(queue) + 1 /\ Len(queue) \in Nat /\ MissQueueSize \in Nat
  BY <1>2, CacheAssumption
<1>4. Len(queue) + 2 + 1 <= MissQueueSize
  BY <1>1, <1>2, RoomIs
<1>5. Len(q) + 2 <= MissQueueSize /\ Len(q) < MissQueueSize
  BY <1>3, <1>4
<1>6. CanSendRead(head.addr, q)
  BY <1>1, <1>5 DEF CanSendRead
<1>7. SetTags(p, Accessed(head.addr, p), DirtyAfter(head.addr, p))
      /\ SendRead(FetchFor(None), q, p) /\ Wait
  BY <1>6 DEF WriteMissNaive
<1>8. /\ p.way \in Way /\ Accessed(head.addr, p) \in Line /\ Accessed(head.addr, p).tag \in Blocks
      /\ DirtyAfter(head.addr, p) \in Int
  BY FoundIs
<1>9. FetchFor(None) \in Msg /\ FetchFor(None).id = None /\ FetchFor(None).kind # "write"
  BY HeadIs
<1> QED BY <1>3, <1>5, <1>7, <1>8, <1>9, TakenAsks

LEMMA WriteMissFetchTaken ==
  ASSUME AtHead, NEW p, p = Probed, p.status # "RESERVATION_FAIL", IsWrite(head), WriteMissFetch(p)
  PROVE  Taken
<1> DEFINE k == Accessed(head.addr, p)
           n == [k EXCEPT !.modified_on_fill[head.addr[2]] = TRUE, !.byte_mask_on_fill = TRUE]
<1>1. /\ ~QueueFull(1) /\ SetTags(p, n, DirtyAfter(head.addr, p))
      /\ SendRead(FetchFor(head.id), queue, p) /\ Wait
  BY DEF WriteMissFetch
<1>2. /\ p.way \in Way /\ k \in Line /\ k.tag \in Blocks
      /\ DirtyAfter(head.addr, p) \in Int
  BY FoundIs
<1>3. n \in Line /\ n.tag \in Blocks
  <2>1. head.addr[2] \in Sectors
    BY HeadIs
  <2> HIDE DEF k
  <2> QED BY <1>2, <2>1 DEF Line
<1>4. Len(queue) + 2 <= MissQueueSize /\ queue \in Seq(Item)
  <2>1. MissesOK /\ queue \in Seq(Item)
    BY DEF AtHead, MissesOK
  <2>2. Len(queue) + 1 + 1 <= MissQueueSize /\ Len(queue) \in Nat /\ MissQueueSize \in Nat
    BY <1>1, <2>1, RoomIs, CacheAssumption
  <2> QED BY <2>1, <2>2
<1>5. FetchFor(head.id) \in Msg /\ FetchFor(head.id).id = head.id /\ FetchFor(head.id).kind # "write"
  BY HeadIs
<1> HIDE DEF n
<1>6. PICK q \in Seq(Item), m \in Msg : q = queue /\ m = FetchFor(head.id)
  BY <1>4, <1>5
<1>7. SendRead(m, q, p) /\ Len(q) + 2 <= MissQueueSize /\ m.kind # "write" /\ m.id = head.id
  BY <1>1, <1>4, <1>5, <1>6
<1>8. (m.id = head.id /\ q = queue) \/ (m.id = None /\ IsWrite(head) /\ q = Append(queue, head))
  BY <1>6, <1>7
<1>9. PICK l \in Line, d \in Int : l = n /\ d = DirtyAfter(head.addr, p)
  BY <1>2, <1>3
<1>10. SetTags(p, l, d) /\ l.tag \in Blocks
  BY <1>1, <1>3, <1>9
<1>11. Wait /\ p.way \in Way
  BY <1>1, <1>2
<1> QED BY ONLY AtHead, <1>7, <1>8, <1>10, <1>11, m \in Msg, l \in Line, d \in Int, q \in Seq(Item), TakenAsks

\* A write-back is sent when there is room for one entry.
LEMMA KeepsIs ==
  ASSUME AtHead, NEW p, p.way \in Way, ~QueueFull(0), queue' = queue \o WriteBacks(p),
         UNCHANGED <<mshr, response, fields, below>>, Answer
  PROVE  Keeps /\ Len(queue') <= MissQueueSize
<1>1. MissesOK /\ TagsOK /\ queue \in Seq(Item)
  BY DEF AtHead, MissesOK
<1>2. Len(queue) + 0 + 1 <= MissQueueSize /\ Len(queue) \in Nat /\ MissQueueSize \in Nat
  BY <1>1, RoomIs, CacheAssumption
<1>3. Grows(queue) /\ Len(queue') <= Len(queue) + 1
  BY <1>1, GrowsIs
<1>4. queue' \in Seq(Item)
  <2>1. \A b \in WriteBack : Append(queue, b) \in Seq(Item)
    BY <1>1 DEF Item
  <2> QED BY <1>1, <1>3, <2>1 DEF Grows
<1>5. Len(queue') \in Nat
  BY <1>4
<1> QED BY <1>2, <1>3, <1>5 DEF Keeps

LEMMA WriteMissWholeTaken ==
  ASSUME AtHead, NEW p, p = Probed, p.status # "RESERVATION_FAIL", WriteMissWhole(p),
         config.write = "WRITE_BACK"
  PROVE  Taken
<1> DEFINE k == Accessed(head.addr, p)
           d == DirtyAfter(head.addr, p)
<1>1. /\ ~QueueFull(0) /\ SetTags(p, Modified(k, head), DirtyWith(d, k))
      /\ queue' = queue \o WriteBacks(p) /\ UNCHANGED <<mshr, response, fields, below>> /\ Answer
  BY DEF WriteMissWhole, AnswerIfBack
<1>2. p.way \in Way /\ k \in Line /\ k.tag \in Blocks /\ DirtyWith(d, k) \in Int
  BY FoundIs
<1>3. Modified(k, head) \in Line /\ Modified(k, head).tag \in Blocks
  <2>1. head.addr \in Addr /\ head.bytes \in Masks
    BY HeadIs
  <2> HIDE DEF k
  <2> QED BY <1>2, <2>1, ModifiedIs
<1>4. Keeps /\ Len(queue') <= MissQueueSize
  <2>1. queue' = queue \o WriteBacks(p) /\ UNCHANGED <<mshr, response, fields, below>>
        /\ Answer /\ ~QueueFull(0) /\ p.way \in Way
    BY <1>1, <1>2
  <2> QED BY ONLY <2>1, AtHead, KeepsIs
<1> HIDE DEF k, d
<1> QED BY <1>1, <1>2, <1>3, <1>4, TakenKeeps

LEMMA WriteMissLazyTaken ==
  ASSUME AtHead, NEW p, p = Probed, p.status # "RESERVATION_FAIL", IsWrite(head), WriteMissLazy(p),
         config.write \in {"WRITE_BACK", "WRITE_THROUGH"}
  PROVE  Taken
<1> DEFINE s == head.addr[2]
           whole == head.bytes = Bytes
           reserved == p.status = "HIT_RESERVED"
           k == Accessed(head.addr, p)
           m == Modified(k, head)
           n == [m EXCEPT !.modified_on_fill[s] = @ \/ reserved,
                          !.byte_mask_on_fill = @ \/ reserved,
                          !.readable[s] = whole,
                          !.readable_on_fill[s] = @ \/ (reserved /\ ~whole)]
           d == DirtyWith(DirtyAfter(head.addr, p), k)
<1>1. ~QueueFull(0) /\ SetTags(p, Readable(n, s), d)
      /\ UNCHANGED <<mshr, response, fields, below>>
  BY DEF WriteMissLazy
<1>2. p.way \in Way /\ k \in Line /\ k.tag \in Blocks /\ d \in Int
  BY FoundIs
<1>3. s \in Sectors /\ head.addr \in Addr /\ head.bytes \in Masks
  BY HeadIs
<1>4. m \in Line /\ m.tag \in Blocks
  <2> HIDE DEF k
  <2> QED BY <1>2, <1>3, ModifiedIs
<1>5. n \in Line /\ n.tag \in Blocks
  <2> HIDE DEF m, s
  <2>1. whole \in BOOLEAN /\ reserved \in BOOLEAN
    OBVIOUS
  <2> HIDE DEF whole, reserved
  <2>2. /\ (m.modified_on_fill[s] \/ reserved) \in BOOLEAN /\ (m.byte_mask_on_fill \/ reserved) \in BOOLEAN
        /\ (m.readable_on_fill[s] \/ (reserved /\ ~whole)) \in BOOLEAN
    BY <1>3, <1>4, <2>1 DEF Line
  <2> QED BY <1>3, <1>4, <2>1, <2>2 DEF Line
<1>6. Readable(n, s) \in Line /\ Readable(n, s).tag \in Blocks
  <2> HIDE DEF n
  <2> QED BY <1>3, <1>5, ReadableIs
<1>7. CASE config.write = "WRITE_THROUGH"
  <2>1. queue' = Append(queue, head) /\ Wait
    BY <1>7 DEF WriteMissLazy
  <2>2. Sends /\ Len(queue') <= MissQueueSize
    BY ONLY <1>1, <2>1, AtHead, IsWrite(head), SendsIs
  <2> HIDE DEF n, d
  <2> QED BY <1>1, <1>2, <1>6, <2>2, TakenSends
<1>8. CASE config.write = "WRITE_BACK"
  <2>1. queue' = queue \o WriteBacks(p) /\ Answer
    BY <1>8 DEF WriteMissLazy, AnswerIfBack
  <2>2. Keeps /\ Len(queue') <= MissQueueSize
    <3> HIDE DEF n, d, k, m
    <3>1. p.way \in Way /\ ~QueueFull(0) /\ UNCHANGED <<mshr, response, fields, below>>
      BY <1>1, <1>2
    <3> QED BY ONLY <3>1, <2>1, AtHead, KeepsIs
  <2> HIDE DEF n, d
  <2> QED BY <1>1, <1>2, <1>6, <2>2, TakenKeeps
<1> QED BY <1>7, <1>8

LEMMA WriteMissNoAllocateTaken ==
  ASSUME AtHead, IsWrite(head), WriteMissNoAllocate
  PROVE  Taken
<1>1. /\ ~QueueFull(0) /\ queue' = Append(queue, head) /\ Wait
      /\ UNCHANGED <<mshr, response, fields, below>> /\ UNCHANGED tags
  BY DEF WriteMissNoAllocate
<1>2. Sends /\ Len(queue') <= MissQueueSize
  BY ONLY <1>1, AtHead, IsWrite(head), SendsIs
<1>3. TagsOK' /\ line' = line
  BY <1>1 DEF AtHead, TagsOK, tags, Replaceable, IsInvalid
<1> QED BY <1>2, <1>3 DEF Taken, AtHead

\* Every access is one of these.
LEMMA AccessTaken ==
  ASSUME KeptWritesAnswered, TagsOK, MissesOK, Access
  PROVE  Taken
<1>1. AtHead
  BY DEF Access, ReadHit, ReadMiss, WriteHit, WriteMiss, AtHead
<1>2. config \in Configs /\ config.alloc \in {"NO_WRITE_ALLOCATE", "WRITE_ALLOCATE", "FETCH_ON_WRITE", "LAZY_FETCH_ON_READ"}
  BY CacheAssumption DEF TagsOK, Config
<1>3. CASE ReadHit
  BY <1>1, <1>3, ReadHitTaken
<1>4. CASE ReadMiss
  BY <1>1, <1>4, ReadMissTaken
<1>5. CASE WriteHit
  BY <1>1, <1>5, WriteHitTaken
<1>6. CASE WriteMiss
  <2> PICK p : p = Probed
    OBVIOUS
  <2>1. IsWrite(head)
    BY <1>6 DEF WriteMiss
  <2>2. CASE config.alloc = "NO_WRITE_ALLOCATE"
    <3>1. WriteMissNoAllocate
      BY <1>6, <2>2 DEF WriteMiss
    <3> QED BY <1>1, <2>1, <3>1, WriteMissNoAllocateTaken
  <2>3. CASE config.alloc # "NO_WRITE_ALLOCATE"
    <3>1. p.status # "RESERVATION_FAIL"
      BY <1>6, <2>3 DEF WriteMiss
    <3>2. CASE config.alloc = "WRITE_ALLOCATE"
      <4>1. WriteMissNaive(p)
        BY <1>6, <3>1, <3>2 DEF WriteMiss
      <4> QED BY <1>1, <2>1, <3>1, <4>1, WriteMissNaiveTaken
    <3>3. CASE config.alloc = "FETCH_ON_WRITE" /\ head.bytes = Bytes
      <4>1. WriteMissWhole(p)
        BY <1>6, <3>1, <3>3 DEF WriteMiss
      <4>2. config.write = "WRITE_BACK"
        BY <1>2, <3>3 DEF KeptWritesAnswered
      <4> QED BY <1>1, <3>1, <4>1, <4>2, WriteMissWholeTaken
    <3>4. CASE config.alloc = "FETCH_ON_WRITE" /\ head.bytes # Bytes
      <4>1. WriteMissFetch(p)
        BY <1>6, <3>1, <3>4 DEF WriteMiss
      <4> QED BY <1>1, <2>1, <3>1, <4>1, WriteMissFetchTaken
    <3>5. CASE config.alloc = "LAZY_FETCH_ON_READ"
      <4>1. WriteMissLazy(p)
        BY <1>6, <3>1, <3>5 DEF WriteMiss
      <4>2. config.write \in {"WRITE_BACK", "WRITE_THROUGH"}
        BY <1>2, <3>5 DEF KeptWritesAnswered
      <4> QED BY <1>1, <2>1, <3>1, <4>1, <4>2, WriteMissLazyTaken
    <3> QED BY <1>2, <2>3, <3>2, <3>3, <3>4, <3>5
  <2> QED BY <2>2, <2>3
<1> QED BY <1>3, <1>4, <1>5, <1>6 DEF Access

-------------------------------------------------------------------------------
(* Who owes an answer to a request. *)

Once(S) == \A x, y \in S : x = y

LEMMA MshrHas ==
  ASSUME NEW t, NEW id, NEW x
  PROVE  x \in InMshr(t, id) <=> \E a \in DOMAIN t : \E i \in DOMAIN t[a] : x = <<a, i>> /\ t[a][i].id = id
BY DEF InMshr

\* An entry of the miss queue that is not a write of id does not count for it.
LEMMA QueueAppend ==
  ASSUME NEW q \in Seq(Item), NEW m \in Item, NEW id
  PROVE  /\ ~(m.kind = "write" /\ m.id = id) => InQueue(Append(q, m), id) = InQueue(q, id)
         /\ m.kind = "write" /\ m.id = id => InQueue(Append(q, m), id) = InQueue(q, id) \cup {Len(q) + 1}
<1> PICK r : r = Append(q, m)
  OBVIOUS
<1>1. /\ DOMAIN r = DOMAIN q \cup {Len(q) + 1} /\ Len(q) + 1 \notin DOMAIN q
      /\ r[Len(q) + 1] = m /\ \A i \in DOMAIN q : r[i] = q[i]
  BY AtEnd
<1>2. \A i : i \in InQueue(r, id) <=> i \in DOMAIN r /\ r[i].kind = "write" /\ r[i].id = id
  BY DEF InQueue
<1>3. \A i : i \in InQueue(q, id) <=> i \in DOMAIN q /\ q[i].kind = "write" /\ q[i].id = id
  BY DEF InQueue
<1>4. \A i : i \in InQueue(r, id) <=>
               i \in InQueue(q, id) \/ (i = Len(q) + 1 /\ m.kind = "write" /\ m.id = id)
  BY <1>1, <1>2, <1>3
<1>5. ~(m.kind = "write" /\ m.id = id) => InQueue(r, id) = InQueue(q, id)
  BY <1>4
<1>6. m.kind = "write" /\ m.id = id => InQueue(r, id) = InQueue(q, id) \cup {Len(q) + 1}
  BY <1>4
<1> QED BY <1>5, <1>6

LEMMA GrowsKeeps ==
  ASSUME NEW q \in Seq(Item), Grows(q)
  PROVE  /\ queue' \in Seq(Item) /\ Range(q) \subseteq Range(queue')
         /\ \A id : InQueue(queue', id) = InQueue(q, id)
<1>1. CASE queue' = q
  BY <1>1
<1>2. CASE \E b \in WriteBack : queue' = Append(q, b)
  <2>1. PICK b \in WriteBack : queue' = Append(q, b)
    BY <1>2
  <2>2. b \in Item /\ b.kind # "write"
    BY DEF Item, WriteBack
  <2>3. Append(q, b) \in Seq(Item) /\ Range(Append(q, b)) = Range(q) \cup {b}
    BY <2>2, AtEnd
  <2>4. \A id : InQueue(Append(q, b), id) = InQueue(q, id)
    BY <2>2, QueueAppend
  <2> QED BY <2>1, <2>3, <2>4
<1> QED BY <1>1, <1>2 DEF Grows

\* The request at the head of the miss queue leaves it.
LEMMA QueueTail ==
  ASSUME NEW q \in Seq(Item), q # << >>, NEW id
  PROVE  /\ Once(InQueue(q, id)) => Once(InQueue(Tail(q), id))
         /\ ~(Head(q).kind = "write" /\ Head(q).id = id) => (InQueue(Tail(q), id) = {} <=> InQueue(q, id) = {})
         /\ Head(q).kind = "write" /\ Head(q).id = id =>
              InQueue(q, id) # {} /\ (Once(InQueue(q, id)) => InQueue(Tail(q), id) = {})
<1> PICK r : r = Tail(q)
  OBVIOUS
<1>1. /\ Head(q) = q[1] /\ 1 \in DOMAIN q /\ DOMAIN q \subseteq Nat \ {0} /\ DOMAIN r \subseteq Nat \ {0}
      /\ \A i \in DOMAIN r : r[i] = q[i + 1] /\ i + 1 \in DOMAIN q
      /\ \A i \in DOMAIN q : i # 1 => i - 1 \in DOMAIN r /\ r[i - 1] = q[i]
  <2>1. r \in Seq(Item)
    BY Positions
  <2>2. DOMAIN q = 1 .. Len(q) /\ Len(q) \in Nat /\ DOMAIN r = 1 .. Len(r) /\ Len(r) \in Nat
    BY <2>1, Positions
  <2>3. DOMAIN q \subseteq Nat \ {0} /\ DOMAIN r \subseteq Nat \ {0}
    BY <2>2
  <2> QED BY <2>3, Positions
<1>2. \A i : i \in InQueue(r, id) <=> i \in DOMAIN r /\ r[i].kind = "write" /\ r[i].id = id
  BY DEF InQueue
<1>3. \A i : i \in InQueue(q, id) <=> i \in DOMAIN q /\ q[i].kind = "write" /\ q[i].id = id
  BY DEF InQueue
<1>4. \A i \in InQueue(r, id) : i + 1 \in InQueue(q, id) /\ i \in Nat \ {0}
  BY <1>1, <1>2, <1>3
<1>5. \A i \in InQueue(q, id) : i # 1 => i - 1 \in InQueue(r, id)
  BY <1>1, <1>2, <1>3
<1>6. 1 \in InQueue(q, id) <=> Head(q).kind = "write" /\ Head(q).id = id
  BY <1>1, <1>3
<1>7. ASSUME Once(InQueue(q, id)) PROVE Once(InQueue(r, id))
  <2>1. SUFFICES ASSUME NEW i \in InQueue(r, id), NEW j \in InQueue(r, id) PROVE i = j
    BY DEF Once
  <2>2. i + 1 = j + 1 /\ i \in Nat /\ j \in Nat
    BY <1>4, <1>7 DEF Once
  <2> QED BY <2>2
<1>8. ASSUME 1 \in InQueue(q, id), Once(InQueue(q, id)) PROVE InQueue(r, id) = {}
  <2>1. SUFFICES ASSUME NEW i \in InQueue(r, id) PROVE FALSE
    OBVIOUS
  <2>2. i + 1 = 1 /\ i \in Nat \ {0}
    BY <1>4, <1>8 DEF Once
  <2> QED BY <2>2
<1>9. ASSUME 1 \notin InQueue(q, id) PROVE InQueue(r, id) = {} <=> InQueue(q, id) = {}
  BY <1>4, <1>5, <1>9
<1> QED BY <1>6, <1>7, <1>8, <1>9

\* S is T and one more element.
OneMore(S, T) == \E x : S = T \cup {x}

\* An MSHR table.
Table(t) == \A a \in DOMAIN t : t[a] \in Seq(Msg) /\ t[a] # << >>

\* A request joins an entry of table t, or gets one.
Added(t, u, m) ==
  \/ m.addr \in DOMAIN t /\ u = [t EXCEPT ![m.addr] = Append(t[m.addr], m)]
  \/ m.addr \notin DOMAIN t
     /\ u = [b \in (DOMAIN t) \cup {m.addr} |-> IF b = m.addr THEN <<m>> ELSE t[b]]

LEMMA MshrGrows ==
  ASSUME NEW t, NEW u, NEW m \in Msg, NEW id,
         Table(t), Added(t, u, m)
  PROVE  /\ m.id # id => InMshr(u, id) = InMshr(t, id)
         /\ m.id = id => OneMore(InMshr(u, id), InMshr(t, id))
<1>1. PICK k : /\ \A b \in DOMAIN t : b # m.addr => b \in DOMAIN u /\ u[b] = t[b]
               /\ \A b \in DOMAIN u : b # m.addr => b \in DOMAIN t
               /\ m.addr \in DOMAIN u /\ k \in DOMAIN u[m.addr] /\ u[m.addr][k] = m
               /\ \A i \in DOMAIN u[m.addr] :
                    i # k => m.addr \in DOMAIN t /\ i \in DOMAIN t[m.addr] /\ t[m.addr][i] = u[m.addr][i]
               /\ m.addr \in DOMAIN t => \A i \in DOMAIN t[m.addr] :
                    i \in DOMAIN u[m.addr] /\ u[m.addr][i] = t[m.addr][i] /\ i # k
  <2>1. CASE m.addr \in DOMAIN t
    <3>1. u = [t EXCEPT ![m.addr] = Append(t[m.addr], m)]
      BY <2>1 DEF Added
    <3>2. PICK r : r = Append(t[m.addr], m)
      OBVIOUS
    <3>3. DOMAIN u = DOMAIN t /\ u[m.addr] = r /\ \A b \in DOMAIN t : b # m.addr => u[b] = t[b]
      BY <2>1, <3>1, <3>2
    <3>4. PICK q \in Seq(Msg) : q = t[m.addr]
      BY <2>1 DEF Table
    <3>5. /\ DOMAIN r = DOMAIN q \cup {Len(q) + 1} /\ Len(q) + 1 \notin DOMAIN q
          /\ r[Len(q) + 1] = m /\ \A i \in DOMAIN q : r[i] = q[i]
      BY <3>2, <3>4, AtEnd
    <3> QED BY <2>1, <3>3, <3>4, <3>5
  <2>2. CASE m.addr \notin DOMAIN t
    <3>1. u = [b \in (DOMAIN t) \cup {m.addr} |-> IF b = m.addr THEN <<m>> ELSE t[b]]
      BY <2>2 DEF Added
    <3>2. DOMAIN u = (DOMAIN t) \cup {m.addr} /\ u[m.addr] = <<m>>
          /\ \A b \in DOMAIN t : b # m.addr => u[b] = t[b]
      BY <3>1
    <3>3. DOMAIN <<m>> = {1} /\ <<m>>[1] = m
      OBVIOUS
    <3> QED BY <2>2, <3>2, <3>3
  <2> QED BY <2>1, <2>2
<1>2. \A x : x \in InMshr(t, id) <=> \E a \in DOMAIN t : \E i \in DOMAIN t[a] : x = <<a, i>> /\ t[a][i].id = id
  BY MshrHas
<1>3. \A x : x \in InMshr(u, id) <=> \E a \in DOMAIN u : \E i \in DOMAIN u[a] : x = <<a, i>> /\ u[a][i].id = id
  BY MshrHas
<1>4. ASSUME NEW x \in InMshr(t, id) PROVE x \in InMshr(u, id)
  <2>1. PICK a, i : a \in DOMAIN t /\ i \in DOMAIN t[a] /\ x = <<a, i>> /\ t[a][i].id = id
    BY <1>2
  <2>2. a \in DOMAIN u /\ i \in DOMAIN u[a] /\ u[a][i] = t[a][i]
    BY <1>1, <2>1
  <2> QED BY <1>3, <2>1, <2>2
<1>5. ASSUME NEW x \in InMshr(u, id) PROVE x \in InMshr(t, id) \/ (x = <<m.addr, k>> /\ m.id = id)
  <2>1. PICK a, i : a \in DOMAIN u /\ i \in DOMAIN u[a] /\ x = <<a, i>> /\ u[a][i].id = id
    BY <1>3
  <2>2. CASE a = m.addr /\ i = k
    BY <2>1, <2>2, <1>1
  <2>3. CASE ~(a = m.addr /\ i = k)
    <3>1. a \in DOMAIN t /\ i \in DOMAIN t[a] /\ u[a][i] = t[a][i]
      BY <1>1, <2>1, <2>3
    <3> QED BY <1>2, <2>1, <3>1
  <2> QED BY <2>2, <2>3
<1>6. m.id = id => <<m.addr, k>> \in InMshr(u, id)
  BY <1>1, <1>3
<1>7. m.id # id => InMshr(u, id) = InMshr(t, id)
  BY <1>4, <1>5
<1>8. PICK y : y = <<m.addr, k>>
  OBVIOUS
<1>9. m.id = id => InMshr(u, id) = InMshr(t, id) \cup {y}
  BY <1>4, <1>5, <1>6, <1>8
<1> QED BY <1>7, <1>9 DEF OneMore

\* The first request of entry a is answered.
Removed(t, u, a) ==
  \/ Len(t[a]) > 1 /\ u = [t EXCEPT ![a] = Tail(t[a])]
  \/ ~(Len(t[a]) > 1) /\ u = [b \in (DOMAIN t) \ {a} |-> t[b]]

LEMMA MshrPops ==
  ASSUME NEW t, NEW u, NEW a \in DOMAIN t, NEW id, Table(t), Removed(t, u, a)
  PROVE  /\ Once(InMshr(t, id)) => Once(InMshr(u, id))
         /\ Head(t[a]).id # id => (InMshr(u, id) = {} <=> InMshr(t, id) = {})
         /\ Head(t[a]).id = id => InMshr(t, id) # {} /\ (Once(InMshr(t, id)) => InMshr(u, id) = {})
<1> PICK q \in Seq(Msg) : q = t[a] /\ q # << >>
  BY DEF Table
<1>1. /\ Head(q) = q[1] /\ 1 \in DOMAIN q /\ DOMAIN q = 1 .. Len(q) /\ Len(q) \in Nat
      /\ Tail(q) \in Seq(Msg) /\ Len(Tail(q)) = Len(q) - 1
      /\ \A i \in DOMAIN Tail(q) : Tail(q)[i] = q[i + 1] /\ i + 1 \in DOMAIN q
      /\ \A i \in DOMAIN q : i # 1 => i - 1 \in DOMAIN Tail(q) /\ Tail(q)[i - 1] = q[i]
  BY Positions
<1>2. /\ \A b \in DOMAIN t : b # a => b \in DOMAIN u /\ u[b] = t[b]
      /\ \A b \in DOMAIN u : b # a => b \in DOMAIN t
      /\ a \in DOMAIN u => \A i \in DOMAIN u[a] : i \in Nat \ {0} /\ u[a][i] = q[i + 1] /\ i + 1 \in DOMAIN q
      /\ \A i \in DOMAIN q : i # 1 => a \in DOMAIN u /\ i - 1 \in DOMAIN u[a] /\ u[a][i - 1] = q[i]
  <2>1. CASE Len(q) > 1
    <3>1. u = [t EXCEPT ![a] = Tail(q)]
      BY <2>1 DEF Removed
    <3>2. PICK r : r = Tail(q)
      OBVIOUS
    <3>3. DOMAIN u = DOMAIN t /\ u[a] = r /\ \A b \in DOMAIN t : b # a => u[b] = t[b]
      BY <3>1, <3>2
    <3>4. DOMAIN r = 1 .. Len(r) /\ Len(r) \in Nat
      BY <1>1, <3>2, Positions
    <3>5. \A i \in DOMAIN r : i \in Nat \ {0} /\ r[i] = q[i + 1] /\ i + 1 \in DOMAIN q
      BY <1>1, <3>2, <3>4
    <3>6. \A i \in DOMAIN q : i # 1 => i - 1 \in DOMAIN r /\ r[i - 1] = q[i]
      BY <1>1, <3>2
    <3> QED BY <3>3, <3>5, <3>6
  <2>2. CASE ~(Len(q) > 1)
    <3>1. u = [b \in (DOMAIN t) \ {a} |-> t[b]]
      BY <2>2 DEF Removed
    <3>2. \A i \in DOMAIN q : i = 1
      BY <1>1, <2>2
    <3> QED BY <3>1, <3>2
  <2> QED BY <2>1, <2>2
<1>3. \A x : x \in InMshr(t, id) <=> \E b \in DOMAIN t : \E i \in DOMAIN t[b] : x = <<b, i>> /\ t[b][i].id = id
  BY MshrHas
<1>4. \A x : x \in InMshr(u, id) <=> \E b \in DOMAIN u : \E i \in DOMAIN u[b] : x = <<b, i>> /\ u[b][i].id = id
  BY MshrHas
<1>5. ASSUME NEW b \in DOMAIN u, NEW i \in DOMAIN u[b], u[b][i].id = id
      PROVE  /\ <<b, IF b = a THEN i + 1 ELSE i>> \in InMshr(t, id)
             /\ b = a => i \in Nat \ {0}
  <2>1. CASE b = a
    BY <2>1, <1>2, <1>3, <1>5
  <2>2. CASE b # a
    BY <2>2, <1>2, <1>3, <1>5
  <2> QED BY <2>1, <2>2
<1>6. ASSUME NEW b \in DOMAIN t, NEW i \in DOMAIN t[b], t[b][i].id = id, ~(b = a /\ i = 1)
      PROVE  InMshr(u, id) # {}
  <2>1. CASE b = a
    <3>1. a \in DOMAIN u /\ i - 1 \in DOMAIN u[a] /\ u[a][i - 1].id = id
      BY <1>2, <1>6, <2>1
    <3>2. <<a, i - 1>> \in InMshr(u, id)
      BY <1>4, <3>1
    <3> QED BY <3>2
  <2>2. CASE b # a
    <3>1. <<b, i>> \in InMshr(u, id)
      BY <1>2, <1>4, <1>6, <2>2
    <3> QED BY <3>1
  <2> QED BY <2>1, <2>2
<1>7. Head(q).id = id => <<a, 1>> \in InMshr(t, id)
  BY <1>1, <1>3
<1>8. ASSUME Once(InMshr(t, id)) PROVE Once(InMshr(u, id))
  <2>1. SUFFICES ASSUME NEW x \in InMshr(u, id), NEW y \in InMshr(u, id) PROVE x = y
    BY DEF Once
  <2>2. PICK b, i : b \in DOMAIN u /\ i \in DOMAIN u[b] /\ x = <<b, i>> /\ u[b][i].id = id
    BY <1>4
  <2>3. PICK c, j : c \in DOMAIN u /\ j \in DOMAIN u[c] /\ y = <<c, j>> /\ u[c][j].id = id
    BY <1>4
  <2>4. <<b, IF b = a THEN i + 1 ELSE i>> = <<c, IF c = a THEN j + 1 ELSE j>>
    BY <1>5, <1>8, <2>2, <2>3 DEF Once
  <2>5. b = c /\ (IF b = a THEN i + 1 ELSE i) = (IF c = a THEN j + 1 ELSE j)
    BY <2>4
  <2>6. b = a => i \in Nat /\ j \in Nat
    BY <1>5, <2>2, <2>3, <2>5
  <2>7. i = j
    BY <2>5, <2>6
  <2> QED BY <2>2, <2>3, <2>5, <2>7
<1>9. ASSUME Head(q).id = id, Once(InMshr(t, id)) PROVE InMshr(u, id) = {}
  <2>1. SUFFICES ASSUME NEW x \in InMshr(u, id) PROVE FALSE
    OBVIOUS
  <2>2. PICK b, i : b \in DOMAIN u /\ i \in DOMAIN u[b] /\ x = <<b, i>> /\ u[b][i].id = id
    BY <1>4
  <2>3. <<b, IF b = a THEN i + 1 ELSE i>> = <<a, 1>> /\ (b = a => i \in Nat \ {0})
    BY <1>5, <1>7, <1>9, <2>2 DEF Once
  <2>4. b = a /\ i + 1 = 1 /\ i \in Nat \ {0}
    BY <2>3
  <2> QED BY <2>4
<1>10. ASSUME Head(q).id # id PROVE InMshr(u, id) = {} <=> InMshr(t, id) = {}
  <2>1. InMshr(u, id) # {} => InMshr(t, id) # {}
    BY <1>4, <1>5
  <2>2. InMshr(t, id) # {} => InMshr(u, id) # {}
    <3>1. SUFFICES ASSUME NEW x \in InMshr(t, id) PROVE InMshr(u, id) # {}
      OBVIOUS
    <3>2. PICK b, i : b \in DOMAIN t /\ i \in DOMAIN t[b] /\ x = <<b, i>> /\ t[b][i].id = id
      BY <1>3
    <3>3. ~(b = a /\ i = 1)
      BY <1>1, <1>10, <3>2
    <3> QED BY <1>6, <3>2, <3>3
  <2> QED BY <2>1, <2>2
<1> QED BY <1>7, <1>8, <1>9, <1>10

-------------------------------------------------------------------------------
(* The inductive invariant. *)

\* Request id has one debtor if it waits, none if it does not, and does not wait while it
\* is at the head of the queue.
IdOK(id) ==
  /\ Once(InMshr(mshr, id)) /\ Once(InQueue(queue, id)) /\ Once(InBelow(below, id))
  /\ InMshr(mshr, id) # {} => InQueue(queue, id) = {} /\ InBelow(below, id) = {}
  /\ InQueue(queue, id) # {} => InBelow(below, id) = {}
  /\ id \in waiting <=>
       InMshr(mshr, id) # {} \/ InQueue(queue, id) # {} \/ InBelow(below, id) # {}
  /\ head # None /\ head.id = id => id \notin waiting
IdsOK == \A id \in Ids : IdOK(id)

\* An entry has one fetch or is being answered, and its fetch is on its way.
EntriesOK ==
  /\ \A f, g \in fields : f.mf.addr = g.mf.addr => f = g
  /\ \A i, j \in DOMAIN response : response[i] = response[j] => i = j
  /\ \A f \in fields : f.mf.addr \in DOMAIN mshr /\ f.mf.addr \notin Range(response)
  /\ Range(response) \subseteq DOMAIN mshr
  /\ \A a \in DOMAIN mshr : a \in Range(response) \/ \E f \in fields : f.mf.addr = a
  /\ \A f \in fields : f.mf \in below \/ f.mf \in Range(queue)

Cached == KeptWritesAnswered /\ TagsOK /\ MissesOK /\ IdsOK /\ EntriesOK

-------------------------------------------------------------------------------
(* Accesses. *)

\* What a fetch that is asked for changes.
LEMMA AsksIs ==
  ASSUME MissesOK, NEW q \in Seq(Item), NEW m, NEW w, Asks(m, q, w)
  PROVE  /\ queue' \in Seq(Item) /\ Range(q) \subseteq Range(queue')
         /\ \A id : InQueue(queue', id) = InQueue(q, id)
         /\ DOMAIN mshr' = (DOMAIN mshr) \cup {m.addr} /\ m.addr \in Addr
         /\ \A a \in DOMAIN mshr' : mshr'[a] \in Seq(Msg) /\ mshr'[a] # << >>
         /\ \A id : /\ m.id # id => InMshr(mshr', id) = InMshr(mshr, id)
                    /\ m.id = id => OneMore(InMshr(mshr', id), InMshr(mshr, id))
         /\ \/ m.addr \in DOMAIN mshr /\ fields' = fields
            \/ m.addr \notin DOMAIN mshr /\ m \in Range(queue')
               /\ fields' = fields \cup {[mf |-> m, way |-> w, left |-> SubReads]}
<1>1. m \in Msg /\ m.kind # "write" /\ m \in Item /\ m.addr \in Addr
  BY DEF Asks, Item, Msg, Request, Fetch
<1>2. \A a \in DOMAIN mshr : mshr[a] \in Seq(Msg) /\ mshr[a] # << >>
  BY DEF MissesOK
<1>3. \A id : /\ m.id # id => InMshr(mshr', id) = InMshr(mshr, id)
              /\ m.id = id => OneMore(InMshr(mshr', id), InMshr(mshr, id))
  <2>1. Added(mshr, mshr', m)
    BY DEF Asks, Joins, Starts, Added
  <2>2. PICK t, u : t = mshr /\ u = mshr'
    OBVIOUS
  <2>3. Table(t)
    BY <1>2, <2>2 DEF Table
  <2>4. Added(t, u, m)
    BY <2>1, <2>2
  <2>5. ASSUME NEW id
        PROVE  /\ m.id # id => InMshr(u, id) = InMshr(t, id)
               /\ m.id = id => OneMore(InMshr(u, id), InMshr(t, id))
    BY <1>1, <2>3, <2>4, MshrGrows
  <2> QED BY <2>2, <2>5
<1>4. CASE Joins(m, q)
  <2>1. Grows(q) /\ fields' = fields /\ m.addr \in DOMAIN mshr
        /\ mshr' = [mshr EXCEPT ![m.addr] = Append(mshr[m.addr], m)]
    BY <1>4 DEF Joins
  <2>2. PICK r : r = Append(mshr[m.addr], m)
    OBVIOUS
  <2>3. PICK o \in Seq(Msg) : o = mshr[m.addr]
    BY <1>2, <2>1
  <2>4. r \in Seq(Msg) /\ r # << >>
    BY <1>1, <2>2, <2>3, AtEnd
  <2>5. DOMAIN mshr' = DOMAIN mshr /\ \A a \in DOMAIN mshr : mshr'[a] = IF a = m.addr THEN r ELSE mshr[a]
    BY <2>1, <2>2
  <2>6. DOMAIN mshr' = (DOMAIN mshr) \cup {m.addr}
    BY <2>1, <2>5
  <2>7. \A a \in DOMAIN mshr' : mshr'[a] \in Seq(Msg) /\ mshr'[a] # << >>
    BY <1>2, <2>4, <2>5
  <2> QED BY <1>1, <1>3, <2>1, <2>6, <2>7, GrowsKeeps
<1>5. CASE Starts(m, q, w)
  <2>1. /\ m.addr \notin DOMAIN mshr /\ Grows(Append(q, m))
        /\ mshr' = [b \in (DOMAIN mshr) \cup {m.addr} |-> IF b = m.addr THEN <<m>> ELSE mshr[b]]
        /\ fields' = fields \cup {[mf |-> m, way |-> w, left |-> SubReads]}
    BY <1>5 DEF Starts
  <2>2. PICK r : r = Append(q, m)
    OBVIOUS
  <2>3. r \in Seq(Item) /\ Range(r) = Range(q) \cup {m}
    BY <1>1, <2>2, AtEnd
  <2>4. \A id : InQueue(r, id) = InQueue(q, id)
    BY <1>1, <2>2, QueueAppend
  <2>5. Grows(r)
    BY <2>1, <2>2
  <2>6. queue' \in Seq(Item) /\ Range(r) \subseteq Range(queue') /\ \A id : InQueue(queue', id) = InQueue(r, id)
    BY ONLY <2>3, <2>5, GrowsKeeps
  <2>7. DOMAIN mshr' = (DOMAIN mshr) \cup {m.addr}
        /\ \A a \in DOMAIN mshr' : mshr'[a] = IF a = m.addr THEN <<m>> ELSE mshr[a]
    BY <2>1
  <2>8. <<m>> \in Seq(Msg) /\ <<m>> # << >>
    BY <1>1
  <2>9. \A a \in DOMAIN mshr' : mshr'[a] \in Seq(Msg) /\ mshr'[a] # << >>
    BY <1>2, <2>7, <2>8
  <2>10. queue' \in Seq(Item) /\ Range(q) \subseteq Range(queue') /\ m \in Range(queue')
         /\ \A id : InQueue(queue', id) = InQueue(q, id)
    BY <2>3, <2>4, <2>6
  <2> QED BY <1>1, <1>3, <2>1, <2>7, <2>9, <2>10
<1> QED BY <1>4, <1>5 DEF Asks

\* Each kind of access, as IdsOK, EntriesOK and the types see it.
LEMMA TakenIs ==
  ASSUME MissesOK, IdsOK, EntriesOK, Taken
  PROVE  MissesOK' /\ IdsOK' /\ EntriesOK'
<1> DEFINE h == head.id
<1>1. /\ head \in Request /\ h \in Ids /\ h \notin waiting /\ head \in Item /\ head.addr \in Addr
      /\ None \notin Ids /\ SubReads \in 1 .. SubReads
  <2>1. head \in Request
    BY DEF MissesOK, Taken
  <2>2. SubReads \in 1 .. SubReads
    BY CacheAssumption
  <2> QED BY <2>1, <2>2, CacheAssumption DEF Request, Item, Msg, IdsOK, IdOK, Taken
<1>2. /\ DOMAIN mshr \subseteq Addr /\ \A a \in DOMAIN mshr : mshr[a] \in Seq(Msg) /\ mshr[a] # << >>
      /\ response \in Seq(Addr) /\ queue \in Seq(Item) /\ below \subseteq Msg
      /\ fields \subseteq [mf : Msg, way : Way, left : 1 .. SubReads]
      /\ \A f \in fields : f.mf.kind # "write" /\ line[f.way].tag \in Blocks
      /\ waiting \subseteq Ids
  BY DEF MissesOK
<1>3. /\ \A w \in Way : line[w].tag \in Blocks => line'[w].tag \in Blocks
      /\ Len(queue') <= MissQueueSize
  BY DEF Taken
<1>4. InMshr(mshr, h) = {} /\ InQueue(queue, h) = {} /\ InBelow(below, h) = {}
  BY <1>1 DEF IdsOK, IdOK
<1>5. \A f \in fields : line'[f.way].tag \in Blocks
  BY <1>2, <1>3
<1>6. ASSUME queue' \in Seq(Item), UNCHANGED <<mshr, response, fields, below>>, head' = None, waiting' \subseteq Ids
      PROVE  MissesOK'
  BY <1>2, <1>3, <1>5, <1>6 DEF MissesOK
<1>7. ASSUME Range(queue) \subseteq Range(queue'), UNCHANGED <<mshr, response, fields, below>>
      PROVE  EntriesOK'
  BY <1>7 DEF EntriesOK
<1>8. ASSUME NEW q \in Seq(Item), NEW m, NEW w, Asks(m, q, w), Range(queue) \subseteq Range(q)
      PROVE  MissesOK' /\ EntriesOK' /\ below' = below /\ head' = None /\ waiting' = waiting \cup {h}
             /\ (\A id : InQueue(queue', id) = InQueue(q, id))
             /\ (\A id : /\ m.id # id => InMshr(mshr', id) = InMshr(mshr, id)
                         /\ m.id = id => OneMore(InMshr(mshr', id), InMshr(mshr, id)))
  <2>1. /\ m \in Msg /\ m.kind # "write" /\ w \in Way /\ line'[w].tag \in Blocks
        /\ UNCHANGED <<response, below>> /\ head' = None /\ waiting' = waiting \cup {h}
    BY <1>8 DEF Asks, Wait
  <2>2. /\ queue' \in Seq(Item) /\ Range(queue) \subseteq Range(queue')
        /\ DOMAIN mshr' = (DOMAIN mshr) \cup {m.addr} /\ m.addr \in Addr
        /\ \A a \in DOMAIN mshr' : mshr'[a] \in Seq(Msg) /\ mshr'[a] # << >>
        /\ \/ m.addr \in DOMAIN mshr /\ fields' = fields
           \/ m.addr \notin DOMAIN mshr /\ m \in Range(queue')
              /\ fields' = fields \cup {[mf |-> m, way |-> w, left |-> SubReads]}
    BY <1>8, AsksIs
  <2>3. (\A id : InQueue(queue', id) = InQueue(q, id))
        /\ (\A id : /\ m.id # id => InMshr(mshr', id) = InMshr(mshr, id)
                    /\ m.id = id => OneMore(InMshr(mshr', id), InMshr(mshr, id)))
    BY <1>8, AsksIs
  <2>4. PICK e : e = [mf |-> m, way |-> w, left |-> SubReads]
    OBVIOUS
  <2>5. e \in [mf : Msg, way : Way, left : 1 .. SubReads] /\ e.mf = m /\ e.way = w
    BY <1>1, <2>1, <2>4
  <2>6. \A f \in fields' : f \in fields \/ (f = e /\ m.addr \notin DOMAIN mshr /\ m \in Range(queue') /\ e \in fields')
    BY <2>2, <2>4
  <2>7. MissesOK'
    <3>1. fields' \subseteq [mf : Msg, way : Way, left : 1 .. SubReads]
      BY <1>2, <2>5, <2>6
    <3>2. \A f \in fields' : f.mf.kind # "write" /\ line'[f.way].tag \in Blocks
      BY <1>2, <1>5, <2>1, <2>5, <2>6
    <3>3. DOMAIN mshr' \subseteq Addr
      BY <1>2, <2>2
    <3>4. waiting' \subseteq Ids
      BY <1>1, <1>2, <2>1
    <3>5. response' \in Seq(Addr) /\ below' \subseteq Msg /\ head' \in Request \cup {None}
      BY <1>2, <2>1
    <3> QED BY <1>3, <2>2, <3>1, <3>2, <3>3, <3>4, <3>5 DEF MissesOK
  <2>8. EntriesOK'
    <3>1. /\ \A f, g \in fields : f.mf.addr = g.mf.addr => f = g
          /\ \A f \in fields : f.mf.addr \in DOMAIN mshr /\ f.mf.addr \notin Range(response)
          /\ Range(response) \subseteq DOMAIN mshr
          /\ \A a \in DOMAIN mshr : a \in Range(response) \/ \E f \in fields : f.mf.addr = a
          /\ \A f \in fields : f.mf \in below \/ f.mf \in Range(queue)
      BY DEF EntriesOK
    <3>2. \A f, g \in fields' : f.mf.addr = g.mf.addr => f = g
      BY <2>5, <2>6, <3>1
    <3>3. \A f \in fields' : f.mf.addr \in DOMAIN mshr' /\ f.mf.addr \notin Range(response)
      BY <2>2, <2>5, <2>6, <3>1
    <3>4. fields \subseteq fields' /\ (m.addr \notin DOMAIN mshr => e \in fields')
      BY <2>2, <2>4
    <3>5. \A a \in DOMAIN mshr' : a \in Range(response) \/ \E f \in fields' : f.mf.addr = a
      BY <2>2, <2>5, <3>1, <3>4
    <3>6. \A f \in fields' : f.mf \in below \/ f.mf \in Range(queue')
      BY <2>2, <2>5, <2>6, <3>1
    <3>7. Range(response) \subseteq DOMAIN mshr' /\ \A i, j \in DOMAIN response : response[i] = response[j] => i = j
      BY <2>2, <3>1 DEF EntriesOK
    <3> QED BY <2>1, <3>2, <3>3, <3>5, <3>6, <3>7 DEF EntriesOK
  <2> QED BY <2>1, <2>3, <2>7, <2>8
<1>9. ASSUME NEW x, InMshr(mshr', h) = {x}, InQueue(queue', h) = {}, InBelow(below', h) = {}, waiting' = waiting \cup {h},
             head' = None, \A id \in Ids : id # h => /\ InMshr(mshr', id) = InMshr(mshr, id)
                                                     /\ InQueue(queue', id) = InQueue(queue, id)
                                                     /\ InBelow(below', id) = InBelow(below, id)
      PROVE  IdsOK'
  <2>1. SUFFICES ASSUME NEW id \in Ids PROVE IdOK(id)'
    BY DEF IdsOK
  <2>2. IdOK(id)
    BY DEF IdsOK
  <2>3. CASE id = h
    BY <1>9, <2>3 DEF IdOK, Once
  <2>4. CASE id # h
    BY <1>9, <2>2, <2>4 DEF IdOK
  <2> QED BY <2>3, <2>4
<1>10. ASSUME NEW x, InMshr(mshr', h) = {}, InQueue(queue', h) = {x}, InBelow(below', h) = {}, waiting' = waiting \cup {h},
             head' = None, \A id \in Ids : id # h => /\ InMshr(mshr', id) = InMshr(mshr, id)
                                                     /\ InQueue(queue', id) = InQueue(queue, id)
                                                     /\ InBelow(below', id) = InBelow(below, id)
      PROVE  IdsOK'
  <2>1. SUFFICES ASSUME NEW id \in Ids PROVE IdOK(id)'
    BY DEF IdsOK
  <2>2. IdOK(id)
    BY DEF IdsOK
  <2>3. CASE id = h
    BY <1>10, <2>3 DEF IdOK, Once
  <2>4. CASE id # h
    BY <1>10, <2>2, <2>4 DEF IdOK
  <2> QED BY <2>3, <2>4
<1>11. CASE Keeps
  <2>1. /\ queue' \in Seq(Item) /\ Range(queue) \subseteq Range(queue')
        /\ (\A id : InQueue(queue', id) = InQueue(queue, id))
        /\ UNCHANGED <<mshr, response, fields, below>> /\ head' = None /\ waiting' = waiting
    BY <1>2, <1>11, GrowsKeeps DEF Keeps, Answer
  <2>2. MissesOK' /\ EntriesOK'
    BY <1>2, <1>6, <1>7, <2>1
  <2>3. ASSUME NEW id \in Ids PROVE IdOK(id)'
    BY <2>1 DEF IdOK, IdsOK
  <2> QED BY <2>2, <2>3 DEF IdsOK
<1>12. CASE Sends
  <2>1. /\ head.kind = "write" /\ queue' = Append(queue, head) /\ head' = None /\ waiting' = waiting \cup {h}
        /\ UNCHANGED <<mshr, response, fields, below>>
    BY <1>12 DEF Sends, Wait, IsWrite
  <2>2. queue' \in Seq(Item) /\ Range(queue) \subseteq Range(queue')
    BY <1>1, <1>2, <2>1, AtEnd
  <2>3. MissesOK' /\ EntriesOK'
    BY <1>1, <1>2, <1>6, <1>7, <2>1, <2>2
  <2>4. InQueue(queue', h) = InQueue(queue, h) \cup {Len(queue) + 1}
        /\ \A id : id # h => InQueue(queue', id) = InQueue(queue, id)
    BY <1>1, <1>2, <2>1, QueueAppend
  <2>5. InQueue(queue', h) = {Len(queue) + 1}
    BY <1>4, <2>4
  <2> HIDE DEF h
  <2>6. IdsOK'
    BY <1>4, <1>10, <2>1, <2>4, <2>5
  <2> QED BY <2>3, <2>6
<1>13. CASE Fetches
  <2>1. PICK m, w : m.id = h /\ Asks(m, queue, w)
    BY <1>13 DEF Fetches
  <2>2. PICK q \in Seq(Item) : q = queue
    BY <1>2
  <2>3. /\ MissesOK' /\ EntriesOK' /\ below' = below /\ head' = None /\ waiting' = waiting \cup {h}
        /\ (\A id : InQueue(queue', id) = InQueue(q, id))
        /\ (\A id : /\ m.id # id => InMshr(mshr', id) = InMshr(mshr, id)
                    /\ m.id = id => OneMore(InMshr(mshr', id), InMshr(mshr, id)))
    <3>1. Asks(m, q, w) /\ Range(queue) \subseteq Range(q)
      BY <2>1, <2>2
    <3> QED BY <1>8, <3>1
  <2> HIDE DEF h
  <2>4. PICK x : InMshr(mshr', h) = InMshr(mshr, h) \cup {x}
    BY <2>1, <2>3 DEF OneMore
  <2>5. InMshr(mshr', h) = {x}
    BY <1>4, <2>4
  <2>6. IdsOK'
    BY <1>4, <1>9, <2>1, <2>2, <2>3, <2>5
  <2> QED BY <2>3, <2>6
<1>14. CASE SendsAndFetches
  <2>1. PICK m, w : m.id = None /\ head.kind = "write" /\ Asks(m, Append(queue, head), w)
    BY <1>14 DEF SendsAndFetches, IsWrite
  <2>2. PICK q : q = Append(queue, head)
    OBVIOUS
  <2>3. q \in Seq(Item) /\ Range(queue) \subseteq Range(q)
    BY <1>1, <1>2, <2>2, AtEnd
  <2>4. InQueue(q, h) = InQueue(queue, h) \cup {Len(queue) + 1}
        /\ \A id : id # h => InQueue(q, id) = InQueue(queue, id)
    BY <1>1, <1>2, <2>1, <2>2, QueueAppend
  <2>5. /\ MissesOK' /\ EntriesOK' /\ below' = below /\ head' = None /\ waiting' = waiting \cup {h}
        /\ (\A id : InQueue(queue', id) = InQueue(q, id))
        /\ (\A id : m.id # id => InMshr(mshr', id) = InMshr(mshr, id))
    <3>1. Asks(m, q, w)
      BY <2>1, <2>2
    <3> QED BY <1>8, <2>3, <3>1
  <2>6. InQueue(queue', h) = {Len(queue) + 1}
    BY <1>4, <2>4, <2>5
  <2> HIDE DEF h
  <2>7. \A id \in Ids : InMshr(mshr', id) = InMshr(mshr, id)
    BY <1>1, <2>1, <2>5
  <2>8. IdsOK'
    BY <1>1, <1>4, <1>10, <2>4, <2>5, <2>6, <2>7
  <2> QED BY <2>5, <2>8
<1> QED BY <1>11, <1>12, <1>13, <1>14 DEF Taken

-------------------------------------------------------------------------------
(* The other steps. *)

\* The request at the head of the miss queue is sent.
LEMMA CycleIs ==
  ASSUME Cached, Cycle PROVE Cached'
<1> PICK m : m = Head(queue)
  OBVIOUS
<1>1. /\ queue # << >> /\ queue' = Tail(queue)
      /\ below' = IF m.kind = "writeback" THEN below ELSE below \cup {m}
      /\ UNCHANGED <<config, line, order, dirty, used, mshr, response, fields, head, waiting>>
  BY DEF Cycle, tags
<1>2. PICK q \in Seq(Item) : q = queue /\ Len(q) <= MissQueueSize
  BY DEF Cached, MissesOK
<1>3. PICK r \in Seq(Item) : r = queue' /\ r = Tail(q) /\ Len(r) = Len(q) - 1 /\ m \in Item
  BY <1>1, <1>2, Positions
<1>4. TagsOK'
  BY <1>1 DEF Cached, TagsOK, Replaceable, IsInvalid
<1>5. m.kind # "writeback" => m \in Msg
  BY <1>3 DEF Item, WriteBack
<1>6. MissesOK'
  <2>1. Len(q) \in Nat /\ MissQueueSize \in Nat /\ Len(r) \in Nat
    BY CacheAssumption
  <2>2. Len(queue') <= MissQueueSize /\ queue' \in Seq(Item)
    BY <1>2, <1>3, <2>1
  <2>3. below' \subseteq Msg
    BY <1>1, <1>5 DEF Cached, MissesOK
  <2> QED BY <1>1, <2>2, <2>3 DEF Cached, MissesOK
<1>7. IdsOK'
  <2>1. SUFFICES ASSUME NEW id \in Ids PROVE IdOK(id)'
    BY DEF IdsOK
  <2>2. IdOK(id)
    BY DEF Cached, IdsOK
  <2>3. /\ Once(InQueue(q, id)) => Once(InQueue(r, id))
        /\ ~(m.kind = "write" /\ m.id = id) => (InQueue(r, id) = {} <=> InQueue(q, id) = {})
        /\ m.kind = "write" /\ m.id = id =>
              InQueue(q, id) # {} /\ (Once(InQueue(q, id)) => InQueue(r, id) = {})
    BY <1>1, <1>2, <1>3, QueueTail
  <2>4. CASE m.kind = "write" /\ m.id = id
    <3>1. InQueue(queue, id) # {} /\ InQueue(queue', id) = {} /\ InMshr(mshr, id) = {} /\ InBelow(below, id) = {}
      BY <1>2, <1>3, <2>2, <2>3, <2>4 DEF IdOK
    <3>2. InBelow(below', id) = {m}
      BY <1>1, <2>4, <3>1 DEF InBelow
    <3> QED BY <1>1, <2>2, <3>1, <3>2 DEF IdOK, Once
  <2>5. CASE ~(m.kind = "write" /\ m.id = id)
    <3>1. InBelow(below', id) = InBelow(below, id)
      BY <1>1, <2>5 DEF InBelow
    <3> QED BY <1>1, <1>2, <1>3, <2>2, <2>3, <2>5, <3>1 DEF IdOK
  <2> QED BY <2>4, <2>5
<1>8. EntriesOK'
  <2>1. \A f \in fields : f.mf \in below' \/ f.mf \in Range(queue')
    <3>1. SUFFICES ASSUME NEW f \in fields PROVE f.mf \in below' \/ f.mf \in Range(queue')
      OBVIOUS
    <3>2. f.mf \in below \/ f.mf \in Range(q)
      BY <1>2 DEF Cached, EntriesOK
    <3>3. f.mf.kind # "writeback"
      BY DEF Cached, MissesOK, Msg, Request, Fetch
    <3>4. ASSUME f.mf \in Range(q) PROVE f.mf = m \/ f.mf \in Range(r)
      <4>1. PICK i \in DOMAIN q : f.mf = q[i]
        BY <3>4, Positions
      <4>2. CASE i = 1
        BY <1>1, <1>2, <4>1, <4>2, Positions
      <4>3. CASE i # 1
        <5>1. i - 1 \in DOMAIN r /\ r[i - 1] = q[i]
          BY <1>1, <1>2, <1>3, <4>3, Positions
        <5>2. Range(r) = {r[j] : j \in DOMAIN r}
          BY Positions
        <5> QED BY <4>1, <5>1, <5>2
      <4> QED BY <4>2, <4>3
    <3> QED BY <1>1, <1>3, <3>2, <3>3, <3>4
  <2> QED BY <1>1, <2>1 DEF Cached, EntriesOK
<1> QED BY <1>4, <1>6, <1>7, <1>8 DEF Cached

\* The next request of the entry at the head of the responses is answered.
LEMMA NextAccessIs ==
  ASSUME Cached, NextAccess PROVE Cached'
<1> PICK a, m : a = Head(response) /\ m = Head(mshr[a])
  OBVIOUS
<1>1. /\ response # << >> /\ waiting' = waiting \ {m.id}
      /\ \/ /\ Len(mshr[a]) > 1
            /\ mshr' = [mshr EXCEPT ![a] = Tail(mshr[a])] /\ response' = response
         \/ /\ ~(Len(mshr[a]) > 1)
            /\ mshr' = [b \in (DOMAIN mshr) \ {a} |-> mshr[b]] /\ response' = Tail(response)
      /\ UNCHANGED <<config, line, order, dirty, used, queue, fields, below, head>>
  BY DEF NextAccess, tags
<1>2. PICK s \in Seq(Addr) : s = response
  BY DEF Cached, MissesOK
<1>3. /\ a = s[1] /\ 1 \in DOMAIN s /\ Tail(s) \in Seq(Addr) /\ Range(s) = {s[i] : i \in DOMAIN s}
      /\ DOMAIN s = 1 .. Len(s) /\ Len(s) \in Nat
      /\ \A i \in DOMAIN Tail(s) : Tail(s)[i] = s[i + 1] /\ i + 1 \in DOMAIN s
      /\ \A i \in DOMAIN s : i # 1 => i - 1 \in DOMAIN Tail(s) /\ Tail(s)[i - 1] = s[i]
  BY <1>1, <1>2, Positions
<1>4. a \in DOMAIN mshr /\ a \in Range(s)
  BY <1>2, <1>3 DEF Cached, EntriesOK
<1>5. Table(mshr) /\ mshr[a] \in Seq(Msg) /\ mshr[a] # << >>
  BY <1>4 DEF Cached, MissesOK, Table
<1>6. TagsOK'
  BY <1>1 DEF Cached, TagsOK, Replaceable, IsInvalid
<1>7. /\ Range(response') \subseteq Range(s)
      /\ \A b \in Range(s) : b # a => b \in Range(response')
      /\ Len(mshr[a]) > 1 => response' = s
      /\ ~(Len(mshr[a]) > 1) => a \notin Range(response')
      /\ \A i, j \in DOMAIN response' : response'[i] = response'[j] => i = j
      /\ response' \in Seq(Addr)
  <2>1. \A i, j \in DOMAIN s : s[i] = s[j] => i = j
    BY <1>2 DEF Cached, EntriesOK
  <2>2. CASE Len(mshr[a]) > 1
    BY <1>1, <1>2, <2>1, <2>2
  <2>3. CASE ~(Len(mshr[a]) > 1)
    <3>1. PICK r \in Seq(Addr) : r = response' /\ r = Tail(s)
      BY <1>1, <1>2, <1>3, <2>3
    <3>2. Range(r) = {r[i] : i \in DOMAIN r} /\ DOMAIN r = 1 .. Len(r) /\ Len(r) \in Nat
      BY Positions
    <3>3. \A i \in DOMAIN r : r[i] = s[i + 1] /\ i + 1 \in DOMAIN s /\ i \in Nat \ {0}
      BY <1>3, <3>1, <3>2
    <3>4. Range(r) \subseteq Range(s)
      BY <1>3, <3>2, <3>3
    <3>5. ASSUME NEW b \in Range(s), b # a
          PROVE  b \in Range(r)
      <4>1. PICK i \in DOMAIN s : b = s[i]
        BY <1>3
      <4>2. i - 1 \in DOMAIN r /\ r[i - 1] = s[i]
        BY <1>3, <3>1, <3>5, <4>1
      <4> QED BY <3>2, <4>1, <4>2
    <3>6. a \notin Range(r)
      <4>1. SUFFICES ASSUME NEW i \in DOMAIN r, r[i] = a PROVE FALSE
        BY <3>2
      <4>2. i + 1 = 1 /\ i \in Nat \ {0}
        BY <1>3, <2>1, <3>3, <4>1
      <4> QED BY <4>2
    <3>7. \A i, j \in DOMAIN r : r[i] = r[j] => i = j
      <4>1. SUFFICES ASSUME NEW i \in DOMAIN r, NEW j \in DOMAIN r, r[i] = r[j] PROVE i = j
        OBVIOUS
      <4>2. i + 1 = j + 1 /\ i \in Nat /\ j \in Nat
        BY <2>1, <3>3, <4>1
      <4> QED BY <4>2
    <3> QED BY <2>3, <3>1, <3>4, <3>5, <3>6, <3>7
  <2> QED BY <2>2, <2>3
<1>8. /\ Len(mshr[a]) > 1 => DOMAIN mshr' = DOMAIN mshr
      /\ ~(Len(mshr[a]) > 1) => DOMAIN mshr' = (DOMAIN mshr) \ {a}
      /\ \A b \in DOMAIN mshr' : mshr'[b] \in Seq(Msg) /\ mshr'[b] # << >>
  <2>1. CASE Len(mshr[a]) > 1
    <3>1. PICK t \in Seq(Msg) : t = Tail(mshr[a]) /\ Len(t) = Len(mshr[a]) - 1
      <4>1. PICK q \in Seq(Msg) : q = mshr[a] /\ q # << >>
        BY <1>5
      <4>2. Tail(q) \in Seq(Msg) /\ Len(Tail(q)) = Len(q) - 1
        BY <4>1, Positions
      <4> QED BY <4>1, <4>2
    <3>2. t # << >>
      <4>1. Len(mshr[a]) \in Nat
        BY <1>5
      <4>2. Len(t) # 0
        BY <2>1, <3>1, <4>1
      <4>3. Len(<< >>) = 0
        OBVIOUS
      <4> QED BY <4>2, <4>3
    <3>3. mshr' = [mshr EXCEPT ![a] = t]
      BY <1>1, <2>1, <3>1
    <3>4. DOMAIN mshr' = DOMAIN mshr /\ \A b \in DOMAIN mshr : mshr'[b] = IF b = a THEN t ELSE mshr[b]
      BY <3>3
    <3> QED BY <1>5, <2>1, <3>2, <3>4 DEF Table
  <2>2. CASE ~(Len(mshr[a]) > 1)
    <3>1. mshr' = [b \in (DOMAIN mshr) \ {a} |-> mshr[b]]
      BY <1>1, <2>2
    <3> QED BY <1>5, <2>2, <3>1 DEF Table
  <2> QED BY <2>1, <2>2
<1>9. MissesOK'
  <2>1. DOMAIN mshr' \subseteq Addr
    BY <1>8 DEF Cached, MissesOK
  <2> QED BY <1>1, <1>7, <1>8, <2>1 DEF Cached, MissesOK
<1>10. IdsOK'
  <2>1. SUFFICES ASSUME NEW id \in Ids PROVE IdOK(id)'
    BY DEF IdsOK
  <2>2. IdOK(id)
    BY DEF Cached, IdsOK
  <2>3. Removed(mshr, mshr', a)
    BY <1>1 DEF Removed
  <2>4. PICK t, u : t = mshr /\ u = mshr'
    OBVIOUS
  <2>5. a \in DOMAIN t /\ Table(t) /\ Removed(t, u, a)
    BY <1>4, <1>5, <2>3, <2>4
  <2>6. /\ Once(InMshr(t, id)) => Once(InMshr(u, id))
        /\ Head(t[a]).id # id => (InMshr(u, id) = {} <=> InMshr(t, id) = {})
        /\ Head(t[a]).id = id => InMshr(t, id) # {} /\ (Once(InMshr(t, id)) => InMshr(u, id) = {})
    BY ONLY <2>5, MshrPops
  <2>7. m = Head(t[a])
    BY <2>4
  <2>8. CASE m.id = id
    BY <1>1, <2>2, <2>4, <2>6, <2>7, <2>8 DEF IdOK
  <2>9. CASE m.id # id
    BY <1>1, <2>2, <2>4, <2>6, <2>7, <2>9 DEF IdOK
  <2> QED BY <2>8, <2>9
<1>11. EntriesOK'
  <2>1. /\ \A f, g \in fields : f.mf.addr = g.mf.addr => f = g
        /\ \A f \in fields : f.mf.addr \in DOMAIN mshr /\ f.mf.addr \notin Range(s)
        /\ Range(s) \subseteq DOMAIN mshr
        /\ \A b \in DOMAIN mshr : b \in Range(s) \/ \E f \in fields : f.mf.addr = b
        /\ \A f \in fields : f.mf \in below \/ f.mf \in Range(queue)
    BY <1>2 DEF Cached, EntriesOK
  <2>2. \A f \in fields : f.mf.addr \in DOMAIN mshr' /\ f.mf.addr \notin Range(response')
    BY <1>4, <1>7, <1>8, <2>1
  <2>3. Range(response') \subseteq DOMAIN mshr'
    BY <1>7, <1>8, <2>1
  <2>4. \A b \in DOMAIN mshr' : b \in Range(response') \/ \E f \in fields : f.mf.addr = b
    BY <1>7, <1>8, <2>1
  <2> QED BY <1>1, <1>7, <2>1, <2>2, <2>3, <2>4 DEF EntriesOK
<1> QED BY <1>6, <1>9, <1>10, <1>11 DEF Cached

\* The tags after an answer that comes for the fetch m of way w.
LEMMA FillTags ==
  ASSUME TagsOK, NEW w \in Way, NEW l \in Line, l.tag = line[w].tag, l.tag \in Blocks,
         line' = [line EXCEPT ![w] = l], dirty' \in Int, UNCHANGED <<config, order, used>>
  PROVE  TagsOK' /\ \A v \in Way : line'[v].tag = line[v].tag
<1>1. line' \in [Way -> Line] /\ line'[w] = l /\ \A v \in Way : v # w => line'[v] = line[v]
  BY DEF TagsOK
<1>2. \A v \in Way : line'[v].tag = line[v].tag
  BY <1>1
<1>3. \A v \in Way : line'[v].tag \notin Blocks => IsInvalid(line'[v])
  BY <1>1 DEF TagsOK
<1> QED BY <1>1, <1>2, <1>3 DEF TagsOK

\* An answer that more are to follow.
LEMMA FillPartIs ==
  ASSUME Cached, NEW f \in fields, f.left > 1, Fill(f) PROVE Cached'
<1> PICK e : e = [f EXCEPT !.left = f.left - 1]
  OBVIOUS
<1>1. /\ fields' = (fields \ {f}) \cup {e}
      /\ UNCHANGED <<config, line, order, dirty, used, mshr, response, queue, below, head, waiting>>
  BY DEF Fill, tags
<1>2. f \in [mf : Msg, way : Way, left : 1 .. SubReads] /\ SubReads \in Nat
  BY CacheAssumption DEF Cached, MissesOK
<1>3. e \in [mf : Msg, way : Way, left : 1 .. SubReads] /\ e.mf = f.mf /\ e.way = f.way
  <2>1. f.left - 1 \in 1 .. SubReads
    BY <1>2
  <2> QED BY <1>2, <2>1
<1>4. TagsOK'
  BY <1>1 DEF Cached, TagsOK, Replaceable, IsInvalid
<1>5. MissesOK'
  <2>1. fields' \subseteq [mf : Msg, way : Way, left : 1 .. SubReads]
    BY <1>1, <1>3 DEF Cached, MissesOK
  <2>2. \A g \in fields' : g.mf.kind # "write" /\ line'[g.way].tag \in Blocks
    BY <1>1, <1>3 DEF Cached, MissesOK
  <2> QED BY <1>1, <2>1, <2>2 DEF Cached, MissesOK
<1>6. IdsOK'
  BY <1>1 DEF Cached, IdsOK, IdOK
<1>7. EntriesOK'
  <2>1. /\ \A g, h \in fields : g.mf.addr = h.mf.addr => g = h
        /\ \A g \in fields : g.mf.addr \in DOMAIN mshr /\ g.mf.addr \notin Range(response)
        /\ \A a \in DOMAIN mshr : a \in Range(response) \/ \E g \in fields : g.mf.addr = a
        /\ \A g \in fields : g.mf \in below \/ g.mf \in Range(queue)
    BY DEF Cached, EntriesOK
  <2>2. \A g \in fields' : (g \in fields /\ g # f) \/ g = e
    BY <1>1
  <2>3. \A g, h \in fields' : g.mf.addr = h.mf.addr => g = h
    BY <1>3, <2>1, <2>2
  <2>4. \A g \in fields' : g.mf.addr \in DOMAIN mshr /\ g.mf.addr \notin Range(response)
    BY <1>3, <2>1, <2>2
  <2>5. \A a \in DOMAIN mshr : a \in Range(response) \/ \E g \in fields' : g.mf.addr = a
    BY <1>1, <1>3, <2>1
  <2>6. \A g \in fields' : g.mf \in below \/ g.mf \in Range(queue)
    BY <1>3, <2>1, <2>2
  <2> QED BY <1>1, <2>3, <2>4, <2>5, <2>6 DEF Cached, EntriesOK
<1> QED BY <1>4, <1>5, <1>6, <1>7 DEF Cached

\* The last answer to a fetch: its entry is answered next.
LEMMA FillLastIs ==
  ASSUME Cached, NEW f \in fields, ~(f.left > 1), Fill(f) PROVE Cached'
<1> PICK a, m : a = f.mf.addr /\ m = f.mf
  OBVIOUS
<1> DEFINE l == Filled(line[f.way], m)
           k == IF HasAtomic(a) THEN Modified(l, m) ELSE l
<1>1. /\ line' = [line EXCEPT ![f.way] = k] /\ response' = Append(response, a)
      /\ dirty' = IF HasAtomic(a) THEN DirtyWith(DirtyFilled(line[f.way], m), l)
                  ELSE DirtyFilled(line[f.way], m)
      /\ fields' = fields \ {f} /\ below' = below \ {m}
      /\ UNCHANGED <<config, order, used, mshr, queue, head, waiting>>
  BY DEF Fill, MarkReady
<1>2. f.way \in Way /\ m \in Msg /\ m.kind # "write" /\ line[f.way].tag \in Blocks
  BY DEF Cached, MissesOK
<1>3. a \in Addr /\ m.addr \in Addr /\ m.bytes \in Masks
  BY <1>2 DEF Msg, Request, Fetch
<1>4. line[f.way] \in Line /\ dirty \in Int
  BY <1>2 DEF Cached, TagsOK
<1>5. l \in Line /\ l.tag = line[f.way].tag
  BY <1>3, <1>4, FilledIs
<1>6. k \in Line /\ k.tag = line[f.way].tag
  <2>1. Modified(l, m) \in Line /\ Modified(l, m).tag = l.tag
    <3> HIDE DEF l
    <3> QED BY <1>3, <1>5, ModifiedIs
  <2> HIDE DEF l
  <2> QED BY <1>5, <2>1
<1>7. dirty' \in Int
  BY <1>1, <1>4 DEF DirtyWith, DirtyFilled
<1>8. TagsOK' /\ \A v \in Way : line'[v].tag = line[v].tag
  <2> HIDE DEF k
  <2>1. TagsOK /\ UNCHANGED <<config, order, used>>
    BY <1>1 DEF Cached
  <2> QED BY <1>1, <1>2, <1>6, <1>7, <2>1, FillTags
<1> HIDE DEF k, l
<1>9. PICK s \in Seq(Addr) : s = response
  BY DEF Cached, MissesOK
<1>10. /\ response' \in Seq(Addr) /\ Range(response') = Range(s) \cup {a}
       /\ DOMAIN response' = DOMAIN s \cup {Len(s) + 1} /\ Len(s) + 1 \notin DOMAIN s
       /\ response'[Len(s) + 1] = a /\ \A i \in DOMAIN s : response'[i] = s[i]
  BY <1>1, <1>3, <1>9, AtEnd
<1>11. MissesOK'
  <2>1. \A g \in fields' : g.mf.kind # "write" /\ line'[g.way].tag \in Blocks
    BY <1>1, <1>8 DEF Cached, MissesOK
  <2> QED BY <1>1, <1>10, <2>1 DEF Cached, MissesOK
<1>12. IdsOK'
  <2>1. \A id : InBelow(below', id) = InBelow(below, id)
    BY <1>1, <1>2 DEF InBelow
  <2> QED BY <1>1, <2>1 DEF Cached, IdsOK, IdOK
<1>13. EntriesOK'
  <2>1. /\ \A g, h \in fields : g.mf.addr = h.mf.addr => g = h
        /\ \A i, j \in DOMAIN s : s[i] = s[j] => i = j
        /\ \A g \in fields : g.mf.addr \in DOMAIN mshr /\ g.mf.addr \notin Range(s)
        /\ Range(s) \subseteq DOMAIN mshr
        /\ \A b \in DOMAIN mshr : b \in Range(s) \/ \E g \in fields : g.mf.addr = b
        /\ \A g \in fields : g.mf \in below \/ g.mf \in Range(queue)
    BY <1>9 DEF Cached, EntriesOK
  <2>2. a \notin Range(s) /\ a \in DOMAIN mshr
    BY <2>1
  <2>3. \A i \in DOMAIN s : s[i] # a
    BY <2>2, Positions
  <2>4. \A i, j \in DOMAIN response' : response'[i] = response'[j] => i = j
    BY <1>10, <2>1, <2>3
  <2>5. \A g \in fields' : g \in fields /\ g # f /\ g.mf.addr # a
    BY <1>1, <2>1
  <2>6. \A g \in fields' : g.mf.addr \in DOMAIN mshr /\ g.mf.addr \notin Range(response')
    BY <1>10, <2>1, <2>5
  <2>7. Range(response') \subseteq DOMAIN mshr
    BY <1>10, <2>1, <2>2
  <2>8. \A b \in DOMAIN mshr : b \in Range(response') \/ \E g \in fields' : g.mf.addr = b
    BY <1>1, <1>10, <2>1
  <2>9. \A g \in fields' : g.mf \in below' \/ g.mf \in Range(queue)
    BY <1>1, <2>1, <2>5
  <2>10. \A g, h \in fields' : g.mf.addr = h.mf.addr => g = h
    BY <2>1, <2>5
  <2> QED BY <1>1, <2>4, <2>6, <2>7, <2>8, <2>9, <2>10 DEF EntriesOK
<1> QED BY <1>8, <1>11, <1>12, <1>13 DEF Cached

\* The memory acknowledges a write.
LEMMA WriteDoneIs ==
  ASSUME Cached, NEW m \in below, WriteDone(m) PROVE Cached'
<1>1. /\ m.kind = "write" /\ below' = below \ {m} /\ waiting' = waiting \ {m.id}
      /\ UNCHANGED <<config, line, order, dirty, used, mshr, response, queue, fields, head>>
  BY DEF WriteDone, tags
<1>2. TagsOK'
  BY <1>1 DEF Cached, TagsOK, Replaceable, IsInvalid
<1>3. MissesOK'
  BY <1>1 DEF Cached, MissesOK
<1>4. IdsOK'
  <2>1. SUFFICES ASSUME NEW id \in Ids PROVE IdOK(id)'
    BY DEF IdsOK
  <2>2. IdOK(id)
    BY DEF Cached, IdsOK
  <2>3. CASE m.id = id
    <3>1. m \in InBelow(below, id)
      BY <1>1, <2>3 DEF InBelow
    <3>2. InBelow(below', id) = {}
      BY <1>1, <2>2, <3>1 DEF IdOK, Once, InBelow
    <3> QED BY <1>1, <2>2, <2>3, <3>1, <3>2 DEF IdOK, Once
  <2>4. CASE m.id # id
    <3>1. InBelow(below', id) = InBelow(below, id)
      BY <1>1, <2>4 DEF InBelow
    <3> QED BY <1>1, <2>2, <2>4, <3>1 DEF IdOK
  <2> QED BY <2>3, <2>4
<1>5. EntriesOK'
  <2>1. \A f \in fields : f.mf # m
    BY <1>1 DEF Cached, MissesOK
  <2> QED BY <1>1, <2>1 DEF Cached, EntriesOK
<1> QED BY <1>2, <1>3, <1>4, <1>5 DEF Cached

\* A flush or an invalidation.
LEMMA InvalidateIs ==
  ASSUME Cached, NEW kind, Invalidate(kind) PROVE Cached'
<1> DEFINE hit == {w \in Way : kind = "invalidate" \/ IsModified(line[w])}
           cleared(w) == [line[w] EXCEPT !.status = EmptyLine.status]
<1>1. /\ line' = [w \in Way |-> IF w \in hit THEN cleared(w) ELSE line[w]]
      /\ dirty' = 0 /\ used' = FALSE
      /\ UNCHANGED <<config, order, mshr, response, queue, fields, below, head, waiting>>
  BY DEF Invalidate, misses
<1>2. \A w \in Way : cleared(w) \in Line /\ cleared(w).tag = line[w].tag /\ IsInvalid(cleared(w))
  <2>1. EmptyLine.status \in [Sectors -> State] /\ \A s \in Sectors : EmptyLine.status[s] = "INVALID"
    BY DEF EmptyLine, State
  <2> SUFFICES ASSUME NEW w \in Way
               PROVE  cleared(w) \in Line /\ cleared(w).tag = line[w].tag /\ IsInvalid(cleared(w))
    OBVIOUS
  <2>2. PICK l \in Line : l = line[w]
    BY DEF Cached, TagsOK
  <2>3. PICK st : st = EmptyLine.status
    OBVIOUS
  <2>4. [l EXCEPT !.status = st] \in Line /\ [l EXCEPT !.status = st].tag = l.tag
        /\ [l EXCEPT !.status = st].status = st
    BY <2>1, <2>3 DEF Line
  <2> QED BY <2>1, <2>2, <2>3, <2>4 DEF IsInvalid
<1> HIDE DEF hit, cleared
<1>3. \A w \in Way : line'[w] \in Line /\ line'[w].tag = line[w].tag
                     /\ (line'[w] = line[w] \/ IsInvalid(line'[w]))
  BY <1>1, <1>2 DEF Cached, TagsOK
<1>4. TagsOK'
  <2>1. line' \in [Way -> Line]
    BY <1>1, <1>3
  <2>2. \A w \in Way : line'[w].tag \notin Blocks => IsInvalid(line'[w])
    BY <1>3 DEF Cached, TagsOK
  <2>3. dirty' \in Int
    BY <1>1
  <2>5. used' \in BOOLEAN
    BY <1>1, Zenon
  <2>4. config' \in Configs /\ order' \in Seq(Way) /\ Range(order') = Way
    BY <1>1 DEF Cached, TagsOK
  <2> QED BY <2>1, <2>2, <2>3, <2>4, <2>5 DEF TagsOK
<1>5. MissesOK'
  <2>1. \A f \in fields : f.mf.kind # "write" /\ line'[f.way].tag \in Blocks
    BY <1>3 DEF Cached, MissesOK
  <2> QED BY <1>1, <2>1 DEF Cached, MissesOK
<1>6. IdsOK' /\ EntriesOK'
  BY <1>1 DEF Cached, IdsOK, IdOK, EntriesOK
<1> QED BY <1>4, <1>5, <1>6 DEF Cached

\* A request comes to the head of the queue.
LEMMA ArriveIs ==
  ASSUME Cached, Arrive PROVE Cached'
<1>1. /\ head = None /\ head' \in Request /\ head'.id \notin waiting
      /\ UNCHANGED <<config, line, order, dirty, used, mshr, response, queue, fields, below, waiting>>
  BY DEF Arrive, tags, misses
<1>2. TagsOK' /\ EntriesOK'
  BY <1>1 DEF Cached, TagsOK, Replaceable, IsInvalid, EntriesOK
<1>3. MissesOK'
  BY <1>1 DEF Cached, MissesOK
<1>4. IdsOK'
  BY <1>1 DEF Cached, IdsOK, IdOK
<1> QED BY <1>2, <1>3, <1>4 DEF Cached

-------------------------------------------------------------------------------
(* The theorems. *)

LEMMA InitCached ==
  ASSUME KeptWritesAnswered, Init PROVE Cached
<1>1. Ways \in Nat /\ MissQueueSize \in Nat
  BY CacheAssumption
<1>2. TagsOK
  <2>1. EmptyLine \in Line /\ IsInvalid(EmptyLine)
    BY DEF EmptyLine, Line, State, IsInvalid
  <2>2. line \in [Way -> Line] /\ \A w \in Way : IsInvalid(line[w])
    BY <2>1 DEF Init
  <2>3. order \in Seq(Way)
    BY <1>1 DEF Init, Way
  <2>4. Range(order) = Way
    BY DEF Init, Range
  <2>5. config \in Configs /\ dirty \in Int
    BY DEF Init
  <2>6. used \in BOOLEAN
    BY Zenon DEF Init
  <2> QED BY <2>2, <2>3, <2>4, <2>5, <2>6 DEF TagsOK
<1>3. /\ DOMAIN mshr = {} /\ DOMAIN response = {} /\ DOMAIN queue = {} /\ Range(response) = {}
      /\ fields = {} /\ below = {} /\ head = None /\ waiting = {}
  BY DEF Init, Range
<1>4. MissesOK
  <2>1. response \in Seq(Addr) /\ queue \in Seq(Item)
    BY DEF Init
  <2>2. Len(queue) <= MissQueueSize
    <3>1. Len(queue) = 0
      BY DEF Init
    <3> QED BY <1>1, <3>1
  <2> QED BY <1>3, <2>1, <2>2 DEF MissesOK
<1>5. IdsOK
  <2>1. \A id : InMshr(mshr, id) = {}
    BY <1>3, MshrHas
  <2>2. \A id : InQueue(queue, id) = {} /\ InBelow(below, id) = {}
    BY <1>3 DEF InQueue, InBelow
  <2> QED BY <1>3, <2>1, <2>2 DEF IdsOK, IdOK, Once
<1>6. EntriesOK
  BY <1>3 DEF EntriesOK
<1> QED BY <1>2, <1>4, <1>5, <1>6 DEF Cached

LEMMA NextCached ==
  ASSUME Cached, [Next]_vars PROVE Cached'
<1>1. CASE Access
  <2>1. Taken
    BY <1>1, AccessTaken DEF Cached
  <2>2. TagsOK'
    BY <2>1 DEF Taken
  <2> QED BY <2>1, <2>2, TakenIs DEF Cached
<1>2. CASE Cycle
  BY <1>2, CycleIs
<1>3. CASE NextAccess
  BY <1>3, NextAccessIs
<1>4. ASSUME NEW f \in fields, Fill(f) PROVE Cached'
  BY <1>4, FillPartIs, FillLastIs
<1>5. ASSUME NEW m \in below, WriteDone(m) PROVE Cached'
  BY <1>5, WriteDoneIs
<1>6. ASSUME NEW kind, Invalidate(kind) PROVE Cached'
  BY <1>6, InvalidateIs
<1>7. CASE Arrive
  BY <1>7, ArriveIs
<1>8. CASE UNCHANGED vars
  BY <1>8 DEF vars, tags, misses, Cached, TagsOK, MissesOK, IdsOK, IdOK, EntriesOK, IsInvalid
<1> QED BY <1>1, <1>2, <1>3, <1>4, <1>5, <1>6, <1>7, <1>8 DEF Next

\* The tags, the MSHR table, the miss queue and the outstanding fetches of a data cache keep
\* their types and agree with each other, through every access, fill and invalidation.
THEOREM CacheConsistent == KeptWritesAnswered /\ Spec => []Cached
<1>1. KeptWritesAnswered /\ Init => Cached
  BY InitCached
<1>2. Cached /\ [Next]_vars => Cached'
  BY NextCached
<1> QED BY <1>1, <1>2, PTL DEF Spec

\* The number of elements of a set with at most one.
LEMMA OnceCounts ==
  ASSUME NEW S, Once(S)
  PROVE  Cardinality(S) = IF S = {} THEN 0 ELSE 1
<1>1. CASE S = {}
  BY <1>1, FS_EmptySet
<1>2. CASE S # {}
  <2>1. PICK x : S = {x}
    BY <1>2 DEF Once
  <2> QED BY <1>2, <2>1, FS_Singleton
<1> QED BY <1>1, <1>2

\* Each request that data_cache::access took is in one place that will answer it.
THEOREM AnsweredOnce == KeptWritesAnswered /\ Spec => []OneAnswer
<1>1. Cached => OneAnswer
  <2>1. SUFFICES ASSUME Cached, NEW id \in Ids
        PROVE  Cardinality(InMshr(mshr, id)) + Cardinality(InQueue(queue, id))
               + Cardinality(InBelow(below, id)) = IF id \in waiting THEN 1 ELSE 0
    BY DEF OneAnswer
  <2>2. IdOK(id)
    BY <2>1 DEF Cached, IdsOK
  <2>3. /\ Cardinality(InMshr(mshr, id)) = IF InMshr(mshr, id) = {} THEN 0 ELSE 1
        /\ Cardinality(InQueue(queue, id)) = IF InQueue(queue, id) = {} THEN 0 ELSE 1
        /\ Cardinality(InBelow(below, id)) = IF InBelow(below, id) = {} THEN 0 ELSE 1
    BY <2>2, OnceCounts DEF IdOK
  <2>4. PICK x, y, z : /\ x = Cardinality(InMshr(mshr, id)) /\ y = Cardinality(InQueue(queue, id))
                       /\ z = Cardinality(InBelow(below, id))
    OBVIOUS
  <2>5. /\ x = IF InMshr(mshr, id) = {} THEN 0 ELSE 1
        /\ y = IF InQueue(queue, id) = {} THEN 0 ELSE 1
        /\ z = IF InBelow(below, id) = {} THEN 0 ELSE 1
    BY <2>3, <2>4
  <2>6. x + y + z = IF id \in waiting THEN 1 ELSE 0
    BY <2>2, <2>5 DEF IdOK
  <2> QED BY <2>4, <2>6
<1> QED BY <1>1, CacheConsistent, PTL

\* An MSHR entry has one fetch on its way or is being answered, so the assertions of
\* mshr_table::mark_ready and next_access hold and every entry is freed.
THEOREM EntriesAwaited == KeptWritesAnswered /\ Spec => []EntryAwaited
<1>1. Cached => EntryAwaited
  <2> SUFFICES ASSUME Cached PROVE EntryAwaited
    OBVIOUS
  <2>1. /\ \A f, g \in fields : f.mf.addr = g.mf.addr => f = g
        /\ \A i, j \in DOMAIN response : response[i] = response[j] => i = j
        /\ \A f \in fields : f.mf.addr \in DOMAIN mshr /\ f.mf.addr \notin Range(response)
        /\ Range(response) \subseteq DOMAIN mshr
        /\ \A a \in DOMAIN mshr : a \in Range(response) \/ \E f \in fields : f.mf.addr = a
        /\ \A f \in fields : f.mf \in below \/ f.mf \in Range(queue)
    BY DEF Cached, EntriesOK
  <2>2. Range(response) = {response[i] : i \in DOMAIN response}
    BY DEF Range
  <2>3. ASSUME NEW a \in DOMAIN mshr
        PROVE  /\ mshr[a] # << >>
               /\ Cardinality({f \in fields : f.mf.addr = a})
                  + Cardinality({i \in DOMAIN response : response[i] = a}) = 1
    <3> DEFINE F == {f \in fields : f.mf.addr = a}
               R == {i \in DOMAIN response : response[i] = a}
    <3>1. Once(F) /\ Once(R)
      BY <2>1 DEF Once
    <3>2. (F = {} /\ R # {}) \/ (F # {} /\ R = {})
      BY <2>1, <2>2
    <3>3. PICK x, y : x = Cardinality(F) /\ y = Cardinality(R)
      OBVIOUS
    <3> HIDE DEF F, R
    <3>4. x = (IF F = {} THEN 0 ELSE 1) /\ y = (IF R = {} THEN 0 ELSE 1)
      BY <3>1, <3>3, OnceCounts
    <3>5. x + y = 1
      BY <3>2, <3>4
    <3>6. Cardinality(F) + Cardinality(R) = 1
      BY <3>3, <3>5
    <3>7. mshr[a] # << >>
      BY DEF Cached, MissesOK
    <3> QED BY <3>6, <3>7 DEF F, R
  <2> QED BY <2>1, <2>3 DEF EntryAwaited
<1> QED BY <1>1, CacheConsistent, PTL

\* An access takes no more room in the miss queue than it tested for, and one that is to be
\* tried again leaves nothing there.
THEOREM RetriesClean == KeptWritesAnswered /\ Spec => CleanRetry
<1>1. ASSUME Cached, Cached', [Next]_vars
      PROVE  Len(queue') <= MissQueueSize /\ (head # None /\ head' = head => Len(queue') <= Len(queue))
  <2>1. Len(queue') <= MissQueueSize /\ Len(queue) \in Nat
    BY <1>1 DEF Cached, MissesOK
  <2>2. CASE Access
    <3>1. Taken
      BY <1>1, <2>2, AccessTaken DEF Cached
    <3>2. head # None /\ head' = None
      BY <3>1 DEF Taken, Keeps, Answer, Sends, Wait, Fetches, SendsAndFetches, Asks
    <3> QED BY <2>1, <3>2
  <2>3. CASE Cycle
    <3>1. PICK q \in Seq(Item) : q = queue /\ q # << >> /\ queue' = Tail(q)
      BY <1>1, <2>3 DEF Cycle, Cached, MissesOK
    <3>2. Len(Tail(q)) = Len(q) - 1 /\ Len(q) \in Nat
      BY <3>1, Positions
    <3>3. Len(queue') <= Len(queue)
      BY <3>1, <3>2
    <3> QED BY <2>1, <3>3
  <2>4. CASE UNCHANGED queue
    BY <2>1, <2>4
  <2>5. Access \/ Cycle \/ UNCHANGED queue
    BY <1>1 DEF Next, vars, misses, Arrive, NextAccess, Fill, WriteDone, Invalidate
  <2> QED BY <2>2, <2>3, <2>4, <2>5
<1>2. Cached /\ Cached' /\ [Next]_vars =>
        [Len(queue') <= MissQueueSize /\ (head # None /\ head' = head => Len(queue') <= Len(queue))]_vars
  BY <1>1
<1> QED BY <1>2, CacheConsistent, PTL DEF Spec, CleanRetry

-------------------------------------------------------------------------------
(* The data.  Lines, under the policies that leave a reserved sector     *)
(* reserved until its fill.                                             *)

\* None of the flags by which writes to a sector and its fill are combined is in use.
Plain(l) == \A s \in Sectors : l.readable[s] = TRUE /\ l.modified_on_fill[s] = FALSE

\* l is o with status x for sector s.
Sets(o, l, s, x) ==
  /\ l \in Line /\ l.tag = o.tag /\ Plain(l)
  /\ \A t \in Sectors : l.status[t] = IF t = s THEN x ELSE o.status[t]

\* l is a new line for the sector address a.
Fresh(l, a) ==
  /\ l \in Line /\ l.tag = a[1] /\ Plain(l)
  /\ \A t \in Sectors : l.status[t] = IF t = a[2] THEN "RESERVED" ELSE "INVALID"

LEMMA ModifiedSets ==
  ASSUME NEW l \in Line, Plain(l), NEW m, m.addr \in Addr, m.bytes \in Masks
  PROVE  Sets(l, Modified(l, m), m.addr[2], "MODIFIED")
<1> DEFINE With(s, bs) == [l EXCEPT !.status[s] = "MODIFIED", !.byte_mask[s] = bs]
<1>1. m.addr[2] \in Sectors
  BY DEF Addr
<1>2. Modified(l, m) = With(m.addr[2], l.byte_mask[m.addr[2]] \cup m.bytes)
  BY DEF Modified, Line
<1>3. ASSUME NEW s \in Sectors, NEW bs
      PROVE  /\ With(s, bs).readable = l.readable /\ With(s, bs).modified_on_fill = l.modified_on_fill
             /\ \A t \in Sectors : With(s, bs).status[t] = IF t = s THEN "MODIFIED" ELSE l.status[t]
  BY DEF Line
<1>4. Modified(l, m) \in Line /\ Modified(l, m).tag = l.tag
  BY ModifiedIs
<1> HIDE DEF With
<1>5. PICK s \in Sectors, n \in Line : s = m.addr[2] /\ n = Modified(l, m)
  BY <1>1, <1>4
<1>6. /\ n.readable = l.readable /\ n.modified_on_fill = l.modified_on_fill /\ n.tag = l.tag
      /\ \A t \in Sectors : n.status[t] = IF t = s THEN "MODIFIED" ELSE l.status[t]
  BY <1>2, <1>3, <1>4, <1>5
<1>7. Plain(n)
  BY <1>6 DEF Plain
<1>8. Sets(l, n, s, "MODIFIED")
  BY <1>6, <1>7 DEF Sets
<1> QED BY <1>5, <1>8

LEMMA ReadableSets ==
  ASSUME NEW l \in Line, Plain(l), NEW s \in Sectors
  PROVE  /\ Readable(l, s) \in Line /\ Readable(l, s).tag = l.tag /\ Plain(Readable(l, s))
         /\ \A t \in Sectors : Readable(l, s).status[t] = l.status[t]
<1>1. CASE l.byte_mask[s] = Bytes
  <2> DEFINE n == [l EXCEPT !.readable[s] = TRUE]
  <2>1. n \in Line /\ n.tag = l.tag /\ n.modified_on_fill = l.modified_on_fill /\ n.status = l.status
        /\ \A t \in Sectors : n.readable[t] = IF t = s THEN TRUE ELSE l.readable[t]
    BY DEF Line
  <2>2. Readable(l, s) = n
    BY <1>1 DEF Readable
  <2> HIDE DEF n
  <2> QED BY <2>1, <2>2 DEF Plain
<1>2. CASE l.byte_mask[s] # Bytes
  BY <1>2 DEF Readable
<1> QED BY <1>1, <1>2

LEMMA WrittenSets ==
  ASSUME NEW l \in Line, Plain(l), NEW m, m.addr \in Addr, m.bytes \in Masks
  PROVE  Sets(l, Readable(Modified(l, m), m.addr[2]), m.addr[2], "MODIFIED")
<1>1. m.addr[2] \in Sectors
  BY DEF Addr
<1>2. PICK k : k = Modified(l, m)
  OBVIOUS
<1>3. Sets(l, k, m.addr[2], "MODIFIED")
  BY <1>2, ModifiedSets
<1>4. k \in Line /\ Plain(k)
  BY <1>3 DEF Sets
<1>5. /\ Readable(k, m.addr[2]) \in Line /\ Readable(k, m.addr[2]).tag = k.tag /\ Plain(Readable(k, m.addr[2]))
      /\ \A t \in Sectors : Readable(k, m.addr[2]).status[t] = k.status[t]
  BY <1>1, <1>4, ReadableSets
<1> QED BY <1>2, <1>3, <1>5 DEF Sets

LEMMA FilledSets ==
  ASSUME NEW l \in Line, Plain(l), NEW m, m.addr \in Addr, m.bytes \in Masks
  PROVE  Sets(l, Filled(l, m), m.addr[2], "VALID")
<1> DEFINE With(s, z) == [l EXCEPT !.status[s] = "VALID", !.readable[s] = TRUE,
                                   !.readable_on_fill[s] = FALSE, !.byte_mask[s] = z]
<1>1. ASSUME NEW s \in Sectors, NEW z
      PROVE  /\ Plain(With(s, z))
             /\ \A u \in Sectors : With(s, z).status[u] = IF u = s THEN "VALID" ELSE l.status[u]
  <2>1. \A u \in Sectors : With(s, z).status[u] = IF u = s THEN "VALID" ELSE l.status[u]
    BY DEF Line
  <2>2. /\ With(s, z).modified_on_fill = l.modified_on_fill
        /\ With(s, z).readable = [l.readable EXCEPT ![s] = TRUE] /\ l.readable \in [Sectors -> BOOLEAN]
    BY DEF Line
  <2> HIDE DEF With
  <2>3. Plain(With(s, z))
    BY <2>2 DEF Plain
  <2> QED BY <2>1, <2>3
<1>2. PICK s \in Sectors : s = m.addr[2]
  BY DEF Addr
<1>3. l.modified_on_fill[s] = FALSE /\ l.readable[s] = TRUE
  BY DEF Plain
<1>4. PICK y : y = IF l.byte_mask_on_fill THEN l.byte_mask[s] \cup m.bytes ELSE l.byte_mask[s]
  OBVIOUS
<1>5. Filled(l, m) = With(s, y)
  BY <1>2, <1>3, <1>4 DEF Filled, Line
<1>6. Filled(l, m) \in Line /\ Filled(l, m).tag = l.tag
  BY FilledIs
<1> HIDE DEF With
<1>7. Plain(Filled(l, m)) /\ \A u \in Sectors : Filled(l, m).status[u] = IF u = s THEN "VALID" ELSE l.status[u]
  BY <1>1, <1>5
<1> QED BY <1>2, <1>6, <1>7 DEF Sets

LEMMA InvalidSets ==
  ASSUME NEW l \in Line, Plain(l), NEW s \in Sectors
  PROVE  Sets(l, [l EXCEPT !.status[s] = "INVALID"], s, "INVALID")
<1> DEFINE n == [l EXCEPT !.status[s] = "INVALID"]
<1>1. n \in Line /\ n.tag = l.tag /\ n.modified_on_fill = l.modified_on_fill /\ n.readable = l.readable
      /\ \A t \in Sectors : n.status[t] = IF t = s THEN "INVALID" ELSE l.status[t]
  BY DEF Line, State
<1> HIDE DEF n
<1>2. Sets(l, n, s, "INVALID")
  BY <1>1 DEF Sets, Plain
<1> QED BY <1>2 DEF n

\* What an access makes of the line it finds.
LEMMA AccessedSets ==
  ASSUME TagsOK, NEW a \in Addr, NEW wr, NEW p, p = Probe(a, wr),
         p.status \notin {"RESERVATION_FAIL", "HIT"}, Plain(line[p.way])
  PROVE  \/ /\ p.status = "MISS" /\ Fresh(Accessed(a, p), a)
            /\ ~IsReserved(line[p.way])
            /\ \A w \in Way : line[w].tag = a[1] => IsInvalid(line[w])
         \/ /\ p.status # "MISS" /\ Sets(line[p.way], Accessed(a, p), a[2], "RESERVED")
            /\ ~IsInvalid(line[p.way]) /\ line[p.way].tag = a[1]
            /\ line[p.way].status[a[2]] \in {"INVALID", "RESERVED"}
<1>1. p.way \in Way /\ p.status \in {"HIT_RESERVED", "SECTOR_MISS", "MISS"} /\ a[2] \in Sectors
  BY ProbeFinds DEF Addr
<1>2. PICK l \in Line : l = line[p.way]
  BY <1>1 DEF TagsOK
<1>3. Accessed(a, p) \in Line /\ Accessed(a, p).tag = a[1]
  BY AccessedIs
<1>4. CASE p.status = "MISS"
  <2> DEFINE n == [EmptyLine EXCEPT !.tag = a[1], !.status[a[2]] = "RESERVED"]
  <2>1. /\ n.readable = EmptyLine.readable /\ n.modified_on_fill = EmptyLine.modified_on_fill
        /\ \A t \in Sectors : n.status[t] = IF t = a[2] THEN "RESERVED" ELSE "INVALID"
    BY DEF EmptyLine
  <2>2. \A s \in Sectors : EmptyLine.readable[s] = TRUE /\ EmptyLine.modified_on_fill[s] = FALSE
    BY DEF EmptyLine
  <2>3. Accessed(a, p) = n
    BY <1>4 DEF Accessed
  <2>4. p.way \in Replaceable /\ \A w \in Way : line[w].tag = a[1] => IsInvalid(line[w])
    BY <1>4, ProbeFinds
  <2> HIDE DEF n
  <2>5. Fresh(Accessed(a, p), a)
    BY <1>3, <2>1, <2>2, <2>3 DEF Fresh, Plain
  <2> QED BY <1>4, <2>4, <2>5 DEF Replaceable
<1>5. CASE p.status = "SECTOR_MISS"
  <2> DEFINE n == [l EXCEPT !.status[a[2]] = "RESERVED",
                            !.modified_on_fill[a[2]] = l.status[a[2]] = "MODIFIED",
                            !.readable_on_fill[a[2]] = FALSE, !.readable[a[2]] = TRUE]
  <2>1. l.status[a[2]] = "INVALID" /\ l.tag = a[1] /\ ~IsInvalid(l)
    <3>1. l.status[a[2]] \notin {"VALID", "RESERVED"} /\ (l.status[a[2]] # "MODIFIED" \/ ~l.readable[a[2]])
          /\ l.tag = a[1] /\ ~IsInvalid(l)
      BY <1>2, <1>5, ProbeFinds
    <3>2. l.readable[a[2]] = TRUE /\ l.status[a[2]] \in State
      BY <1>1, <1>2 DEF Plain, Line
    <3> QED BY <3>1, <3>2 DEF State
  <2>2. \A t \in Sectors : /\ n.status[t] = IF t = a[2] THEN "RESERVED" ELSE l.status[t]
                           /\ n.readable[t] = IF t = a[2] THEN TRUE ELSE l.readable[t]
                           /\ n.modified_on_fill[t] = IF t = a[2] THEN FALSE ELSE l.modified_on_fill[t]
    BY <1>1, <2>1 DEF Line
  <2>3. Accessed(a, p) = n
    BY <1>2, <1>5 DEF Accessed
  <2> HIDE DEF n
  <2>4. Sets(l, Accessed(a, p), a[2], "RESERVED")
    <3>1. \A t \in Sectors : l.readable[t] = TRUE /\ l.modified_on_fill[t] = FALSE
      BY <1>2 DEF Plain
    <3>2. Plain(n)
      BY <2>2, <3>1 DEF Plain
    <3> QED BY <1>3, <2>1, <2>2, <2>3, <3>2 DEF Sets
  <2> QED BY <1>2, <1>5, <2>1, <2>4
<1>6. CASE p.status = "HIT_RESERVED"
  <2>1. Accessed(a, p) = l /\ l.tag = a[1] /\ ~IsInvalid(l) /\ l.status[a[2]] = "RESERVED"
    BY <1>2, <1>6, ProbeFinds DEF Accessed
  <2>2. Sets(l, l, a[2], "RESERVED")
    BY <1>2, <2>1 DEF Sets
  <2> QED BY <1>2, <1>6, <2>1, <2>2
<1> QED BY <1>1, <1>4, <1>5, <1>6

-------------------------------------------------------------------------------
(* What a step does to the tags, the fetches and the data. *)

Atomics == "atomic" \in config.ops

\* Lines of block b may become modified.
MayModify(b) == /\ config.write # "WRITE_EVICT"
                /\ config.write = "LOCAL_WB_GLOBAL_WT" => b \in config.local

\* By how much the number of modified lines grows when o becomes l.
Change(o, l) == IF IsModified(l) THEN IF IsModified(o) THEN 0 ELSE 1
                ELSE IF IsModified(o) THEN -1 ELSE 0

Haves == [Way -> [Sectors -> SUBSET Bytes]]

SameFetch(f, g) == f.way = g.way /\ f.mf = g.mf

\* Fetches stay on their way, those for sector s of way w excepted when it is no more reserved.
FetchesStay == /\ \A f \in fields' : \E g \in fields : SameFetch(f, g)
               /\ \A g \in fields : \E f \in fields' : SameFetch(f, g)

Untouched == FetchesStay /\ UNCHANGED <<line, dirty, newest, have>>

\* Sector s of a line in use, that of way w, gets status x.
SetsSector(w, l, s, x) ==
  /\ w \in Way /\ s \in Sectors /\ line' = [line EXCEPT ![w] = l]
  /\ Sets(line[w], l, s, x) /\ ~IsInvalid(line[w])
  /\ \A f \in fields' : \/ \E g \in fields : SameFetch(f, g)
                        \/ f.way = w /\ f.mf.addr = <<line[w].tag, s>>
  /\ x # "RESERVED" => \A f \in fields' : ~(f.way = w /\ f.mf.addr[2] = s)
  /\ \A g \in fields : \/ \E f \in fields' : SameFetch(f, g)
                       \/ x # "RESERVED" /\ g.way = w /\ g.mf.addr[2] = s
  /\ x = "RESERVED" /\ MaxMerged <= 1 =>
       \E f \in fields' : f.way = w /\ f.mf.addr = <<line[w].tag, s>>
SetsData(w, s, x) ==
  /\ have' \in Haves
  /\ \A v \in Way : \A t \in Sectors : have'[v][t] = have[v][t] \/ (v = w /\ t = s)
  /\ x \in {"VALID", "MODIFIED"} => have'[w][s] = Bytes
SetsDirty(w, l, s, x) ==
  /\ x = "INVALID" => ~MayModify(line[w].tag)
  /\ x = "MODIFIED" => Atomics \/ MayModify(line[w].tag) \/ line[w].status[s] = "MODIFIED"
  /\ dirty' = dirty + Change(line[w], l) \/ (x = "INVALID" /\ dirty' = dirty)
SetsNewest(w, s, x) ==
  \/ Atomics
  \/ /\ \A a \in newest' :
          \/ a \in newest
          \/ a = <<line[w].tag, s>> /\ x = "MODIFIED" /\ config.write # "WRITE_THROUGH"
     /\ line[w].status[s] = "MODIFIED" => x \in {"MODIFIED", "INVALID"}

\* The line of way w is replaced by a line for the sector a.
TakesWay(w, l, a) ==
  /\ w \in Way /\ a \in Addr /\ Fresh(l, a) /\ line' = [line EXCEPT ![w] = l]
  /\ ~IsReserved(line[w])
  /\ \A v \in Way : line[v].tag = a[1] => IsInvalid(line[v])
  /\ \A f \in fields' : (\E g \in fields : SameFetch(f, g)) \/ (f.way = w /\ f.mf.addr = a)
  /\ \A g \in fields : \E f \in fields' : SameFetch(f, g)
  /\ MaxMerged <= 1 => \E f \in fields' : f.way = w /\ f.mf.addr = a
TakesData(w) == have' \in Haves /\ \A v \in Way : v # w => have'[v] = have[v]
TakesDirty(w, l) == dirty' = dirty + Change(line[w], l)
TakesNewest(w) ==
  \/ Atomics
  \/ /\ newest' \subseteq newest
     /\ config.write # "WRITE_THROUGH" =>
          \A t \in Sectors : line[w].status[t] = "MODIFIED" => <<line[w].tag, t>> \notin newest'

\* A flush clears the modified lines, none of which has a reserved sector.
Clears ==
  /\ FetchesStay /\ newest' = {} /\ dirty' = 0
  /\ have' \in Haves
  /\ \A w \in Way :
       \/ line'[w] = line[w] /\ have'[w] = have[w] /\ ~IsModified(line[w])
       \/ IsInvalid(line'[w]) /\ Plain(line'[w]) /\ line'[w].tag = line[w].tag /\ ~IsReserved(line[w])

SomeSector == \E w \in Way, l \in Line, s \in Sectors, x \in State :
  SetsSector(w, l, s, x) /\ SetsData(w, s, x) /\ SetsDirty(w, l, s, x) /\ SetsNewest(w, s, x)
SomeWay == \E w \in Way, l \in Line, a \in Addr :
  TakesWay(w, l, a) /\ TakesData(w) /\ TakesDirty(w, l) /\ TakesNewest(w)
Step == UNCHANGED config /\ (Untouched \/ SomeSector \/ SomeWay \/ Clears)

-------------------------------------------------------------------------------
(* The invariants, and that these steps keep them. *)

OneLine == \A v, w \in Way : line[v].tag = line[w].tag /\ ~IsInvalid(line[v]) /\ ~IsInvalid(line[w]) => v = w
Waits(f) == line[f.way].tag = f.mf.addr[1] /\ line[f.way].status[f.mf.addr[2]] = "RESERVED"
Targeted == OneLine /\ (\A w \in Way : Plain(line[w])) /\ \A f \in fields : Waits(f)

FieldsIn == \A f \in fields : f.way \in Way /\ f.mf.addr \in Addr

LEMMA TargetedStep ==
  ASSUME TagsOK, TagsOK', FieldsIn, FieldsIn', Targeted, Step
  PROVE  Targeted'
<1>1. CASE Untouched
  BY <1>1 DEF Untouched, FetchesStay, SameFetch, Targeted, OneLine, Waits, Plain, IsInvalid
<1>2. ASSUME NEW w \in Way, NEW l \in Line, NEW s \in Sectors, NEW x \in State, SetsSector(w, l, s, x)
      PROVE  Targeted'
  <2>1. line'[w] = l /\ \A v \in Way : v # w => line'[v] = line[v]
    BY <1>2 DEF SetsSector, TagsOK
  <2>2. l.tag = line[w].tag /\ ~IsInvalid(line[w]) /\ Plain(l)
        /\ \A t \in Sectors : l.status[t] = IF t = s THEN x ELSE line[w].status[t]
    BY <1>2 DEF SetsSector, Sets
  <2>3. \A v \in Way : Plain(line'[v])
    BY <2>1, <2>2 DEF Targeted
  <2>4. \A v \in Way : line'[v].tag = line[v].tag /\ (~IsInvalid(line'[v]) => ~IsInvalid(line[v]))
    BY <2>1, <2>2
  <2>5. OneLine'
    <3>1. \A v, u \in Way : line'[v].tag = line'[u].tag /\ ~IsInvalid(line'[v]) /\ ~IsInvalid(line'[u]) => v = u
      BY <2>4 DEF Targeted, OneLine
    <3> QED BY <3>1 DEF OneLine, IsInvalid
  <2>6. ASSUME NEW f \in fields' PROVE Waits(f)'
    <3>1. f.way \in Way /\ f.mf.addr[2] \in Sectors
      BY DEF FieldsIn, Addr
    <3>2. CASE \E g \in fields : SameFetch(f, g)
      <4>1. line[f.way].tag = f.mf.addr[1] /\ line[f.way].status[f.mf.addr[2]] = "RESERVED"
        BY <3>2 DEF SameFetch, Targeted, Waits
      <4>2. x # "RESERVED" => ~(f.way = w /\ f.mf.addr[2] = s)
        BY <1>2 DEF SetsSector
      <4>3. line'[f.way].tag = f.mf.addr[1] /\ line'[f.way].status[f.mf.addr[2]] = "RESERVED"
        BY <2>1, <2>2, <3>1, <4>1, <4>2
      <4> QED BY <4>3 DEF Waits
    <3>3. CASE f.way = w /\ f.mf.addr = <<line[w].tag, s>>
      <4>1. x = "RESERVED"
        BY <1>2, <3>3 DEF SetsSector
      <4>2. line'[f.way].tag = f.mf.addr[1] /\ line'[f.way].status[f.mf.addr[2]] = "RESERVED"
        BY <2>1, <2>2, <3>3, <4>1
      <4> QED BY <4>2 DEF Waits
    <3> QED BY <1>2, <3>2, <3>3 DEF SetsSector
  <2> QED BY <2>3, <2>5, <2>6 DEF Targeted, Plain
<1>3. ASSUME NEW w \in Way, NEW l \in Line, NEW a \in Addr, TakesWay(w, l, a)
      PROVE  Targeted'
  <2>1. line'[w] = l /\ \A v \in Way : v # w => line'[v] = line[v]
    BY <1>3 DEF TakesWay, TagsOK
  <2>2. l.tag = a[1] /\ Plain(l) /\ a[2] \in Sectors /\ l.status[a[2]] = "RESERVED"
    BY <1>3 DEF TakesWay, Fresh, Addr
  <2>3. \A v \in Way : Plain(line'[v])
    BY <2>1, <2>2 DEF Targeted
  <2>4. \A v \in Way : v # w /\ line'[v].tag = a[1] => IsInvalid(line'[v])
    BY <1>3, <2>1 DEF TakesWay
  <2>5. OneLine'
    <3>1. \A v, u \in Way : line'[v].tag = line'[u].tag /\ ~IsInvalid(line'[v]) /\ ~IsInvalid(line'[u]) => v = u
      BY <2>1, <2>2, <2>4 DEF Targeted, OneLine
    <3> QED BY <3>1 DEF OneLine, IsInvalid
  <2>6. ASSUME NEW f \in fields' PROVE Waits(f)'
    <3>1. f.way \in Way /\ f.mf.addr[2] \in Sectors
      BY DEF FieldsIn, Addr
    <3>2. CASE \E g \in fields : SameFetch(f, g)
      <4>1. line[f.way].tag = f.mf.addr[1] /\ line[f.way].status[f.mf.addr[2]] = "RESERVED"
        BY <3>2 DEF SameFetch, Targeted, Waits
      <4>2. f.way # w
        BY <1>3, <3>1, <4>1 DEF TakesWay, IsReserved
      <4> QED BY <2>1, <3>1, <4>1, <4>2 DEF Waits
    <3>3. CASE f.way = w /\ f.mf.addr = a
      BY <2>1, <2>2, <3>3 DEF Waits
    <3> QED BY <1>3, <3>2, <3>3 DEF TakesWay
  <2> QED BY <2>3, <2>5, <2>6 DEF Targeted, Plain
<1>4. CASE Clears
  <2>1. \A w \in Way : line'[w].tag = line[w].tag /\ Plain(line'[w])
                       /\ (~IsInvalid(line'[w]) => line'[w] = line[w])
                       /\ (IsReserved(line[w]) => line'[w] = line[w])
    BY <1>4 DEF Clears, Targeted
  <2>2. OneLine'
    <3>1. \A v, u \in Way : line'[v].tag = line'[u].tag /\ ~IsInvalid(line'[v]) /\ ~IsInvalid(line'[u]) => v = u
      BY <2>1 DEF Targeted, OneLine
    <3> QED BY <3>1 DEF OneLine, IsInvalid
  <2>3. ASSUME NEW f \in fields' PROVE Waits(f)'
    <3>1. f.way \in Way /\ f.mf.addr[2] \in Sectors
      BY DEF FieldsIn, Addr
    <3>2. line[f.way].tag = f.mf.addr[1] /\ line[f.way].status[f.mf.addr[2]] = "RESERVED"
      BY <1>4 DEF Clears, FetchesStay, SameFetch, Targeted, Waits
    <3>3. line'[f.way] = line[f.way]
      BY <2>1, <3>1, <3>2 DEF IsReserved
    <3> QED BY <3>2, <3>3 DEF Waits
  <2> QED BY <2>1, <2>2, <2>3 DEF Targeted, Plain
<1> QED BY <1>1, <1>2, <1>3, <1>4 DEF Step, SomeSector, SomeWay

\* A sector that can be read has all its bytes.
DataHere ==
  /\ have \in Haves
  /\ \A w \in Way : \A s \in Sectors : line[w].status[s] \in {"VALID", "MODIFIED"} => have[w][s] = Bytes

LEMMA DataStep ==
  ASSUME TagsOK, DataHere, Step
  PROVE  DataHere'
<1>1. CASE Untouched
  BY <1>1 DEF Untouched, DataHere, Haves
<1>2. ASSUME NEW w \in Way, NEW l \in Line, NEW s \in Sectors, NEW x \in State,
             SetsSector(w, l, s, x), SetsData(w, s, x)
      PROVE  DataHere'
  <2>1. line'[w] = l /\ \A v \in Way : v # w => line'[v] = line[v]
    BY <1>2 DEF SetsSector, TagsOK
  <2>2. \A t \in Sectors : l.status[t] = IF t = s THEN x ELSE line[w].status[t]
    BY <1>2 DEF SetsSector, Sets
  <2>3. \A v \in Way : \A t \in Sectors : line'[v].status[t] \in {"VALID", "MODIFIED"} => have'[v][t] = Bytes
    BY <1>2, <2>1, <2>2 DEF SetsData, DataHere
  <2> QED BY <1>2, <2>3 DEF SetsData, DataHere, Haves
<1>3. ASSUME NEW w \in Way, NEW l \in Line, NEW a \in Addr, TakesWay(w, l, a), TakesData(w)
      PROVE  DataHere'
  <2>1. line'[w] = l /\ \A v \in Way : v # w => line'[v] = line[v]
    BY <1>3 DEF TakesWay, TagsOK
  <2>2. \A t \in Sectors : l.status[t] \notin {"VALID", "MODIFIED"}
    BY <1>3 DEF TakesWay, Fresh
  <2>3. \A v \in Way : \A t \in Sectors : line'[v].status[t] \in {"VALID", "MODIFIED"} => have'[v][t] = Bytes
    BY <1>3, <2>1, <2>2 DEF TakesData, DataHere
  <2> QED BY <1>3, <2>3 DEF TakesData, DataHere, Haves
<1>4. CASE Clears
  BY <1>4 DEF Clears, DataHere, Haves, IsInvalid
<1> QED BY <1>1, <1>2, <1>3, <1>4 DEF Step, SomeSector, SomeWay

\* m_dirty counts the modified lines, and no line is modified that writes go past.
ModifiedWays == {w \in Way : IsModified(line[w])}
DirtyRight ==
  /\ \A w \in Way : IsModified(line[w]) => MayModify(line[w].tag)
  /\ dirty = Cardinality(ModifiedWays)

\* One line changes: the count of those that are modified.
LEMMA CountChange ==
  ASSUME TagsOK, NEW w \in Way, NEW l \in Line, line' = [line EXCEPT ![w] = l],
         dirty = Cardinality(ModifiedWays), dirty' = dirty + Change(line[w], l)
  PROVE  dirty' = Cardinality(ModifiedWays')
<1> DEFINE M == ModifiedWays
           N == {v \in Way : IsModified(line'[v])}
<1>1. line'[w] = l /\ \A v \in Way : v # w => line'[v] = line[v]
  BY DEF TagsOK
<1>2. IsFiniteSet(M) /\ Cardinality(M) \in Nat
  <2>1. IsFiniteSet(Way)
    BY CacheAssumption, FS_Interval DEF Way
  <2>2. M \subseteq Way
    BY DEF ModifiedWays
  <2> QED BY <2>1, <2>2, FS_Subset, FS_CardinalityType
<1>3. CASE IsModified(l)
  <2>1. N = M \cup {w}
    BY <1>1, <1>3 DEF ModifiedWays
  <2>2. Cardinality(N) = IF w \in M THEN Cardinality(M) ELSE Cardinality(M) + 1
    BY <1>2, <2>1, FS_AddElement
  <2> QED BY <1>2, <1>3, <2>2 DEF ModifiedWays, Change, IsModified
<1>4. CASE ~IsModified(l)
  <2>1. N = M \ {w}
    BY <1>1, <1>4 DEF ModifiedWays
  <2>2. Cardinality(N) = IF w \in M THEN Cardinality(M) - 1 ELSE Cardinality(M)
    BY <1>2, <2>1, FS_RemoveElement
  <2> QED BY <1>2, <1>4, <2>2 DEF ModifiedWays, Change, IsModified
<1> QED BY <1>3, <1>4

LEMMA DirtyStep ==
  ASSUME TagsOK, DirtyRight, Atomics => \A b : MayModify(b), Step
  PROVE  DirtyRight'
<1>1. \A b : MayModify(b)' <=> MayModify(b)
  BY DEF Step, MayModify
<1>2. CASE Untouched
  BY <1>1, <1>2 DEF Untouched, DirtyRight, ModifiedWays, IsModified, Step, MayModify
<1>3. ASSUME NEW w \in Way, NEW l \in Line, NEW s \in Sectors, NEW x \in State,
             SetsSector(w, l, s, x), SetsDirty(w, l, s, x)
      PROVE  DirtyRight'
  <2>1. line'[w] = l /\ \A v \in Way : v # w => line'[v] = line[v]
    BY <1>3 DEF SetsSector, TagsOK
  <2>2. l.tag = line[w].tag /\ \A t \in Sectors : l.status[t] = IF t = s THEN x ELSE line[w].status[t]
    BY <1>3 DEF SetsSector, Sets
  <2>3. IsModified(l) => MayModify(l.tag)
    BY <1>3, <2>2 DEF SetsDirty, DirtyRight, IsModified
  <2>4. \A v \in Way : IsModified(line'[v]) => MayModify(line'[v].tag)
    BY <2>1, <2>3 DEF DirtyRight
  <2>5. dirty' = dirty + Change(line[w], l)
    <3>1. CASE x = "INVALID"
      <4>1. ~IsModified(line[w]) /\ ~IsModified(l)
        BY <1>3, <2>2, <3>1 DEF SetsDirty, DirtyRight, IsModified
      <4>2. Change(line[w], l) = 0 /\ dirty \in Int
        BY <4>1 DEF Change, TagsOK
      <4> QED BY <1>3, <4>2 DEF SetsDirty
    <3>2. CASE x # "INVALID"
      BY <1>3, <3>2 DEF SetsDirty
    <3> QED BY <3>1, <3>2
  <2>6. dirty' = Cardinality(ModifiedWays')
    BY <1>3, <2>5, CountChange DEF SetsSector, DirtyRight
  <2> QED BY <1>1, <2>4, <2>6 DEF DirtyRight, IsModified, ModifiedWays, Step, MayModify
<1>4. ASSUME NEW w \in Way, NEW l \in Line, NEW a \in Addr, TakesWay(w, l, a), TakesDirty(w, l)
      PROVE  DirtyRight'
  <2>1. line'[w] = l /\ \A v \in Way : v # w => line'[v] = line[v]
    BY <1>4 DEF TakesWay, TagsOK
  <2>2. ~IsModified(l)
    BY <1>4 DEF TakesWay, Fresh, IsModified
  <2>3. \A v \in Way : IsModified(line'[v]) => MayModify(line'[v].tag)
    BY <2>1, <2>2 DEF DirtyRight
  <2>4. dirty' = Cardinality(ModifiedWays')
    BY <1>4, CountChange DEF TakesWay, TakesDirty, DirtyRight
  <2> QED BY <1>1, <2>3, <2>4 DEF DirtyRight, IsModified, ModifiedWays, Step, MayModify
<1>5. CASE Clears
  <2>1. \A v \in Way : ~IsModified(line'[v])
    BY <1>5 DEF Clears, IsInvalid, IsModified
  <2>2. ModifiedWays' = {}
    BY <2>1 DEF ModifiedWays, IsModified
  <2>3. dirty' = Cardinality(ModifiedWays')
    BY <1>5, <2>2, FS_EmptySet DEF Clears
  <2> QED BY <2>1, <2>3 DEF DirtyRight, IsModified
<1> QED BY <1>2, <1>3, <1>4, <1>5 DEF Step, SomeSector, SomeWay

\* What was written here and nowhere else is in a modified sector.
NewestKept ==
  /\ newest \subseteq Addr
  /\ config.write = "WRITE_THROUGH" => newest = {}
  /\ \A a \in newest : \E w \in Way : line[w].tag = a[1] /\ line[w].status[a[2]] = "MODIFIED"

LEMMA NewestStep ==
  ASSUME TagsOK, DirtyRight, NewestKept, ~Atomics, Step
  PROVE  NewestKept'
<1>0. config' = config
  BY DEF Step
<1>1. CASE Untouched
  BY <1>0, <1>1 DEF Untouched, NewestKept
<1>2. ASSUME NEW w \in Way, NEW l \in Line, NEW s \in Sectors, NEW x \in State,
             SetsSector(w, l, s, x), SetsDirty(w, l, s, x), SetsNewest(w, s, x)
      PROVE  NewestKept'
  <2>1. line'[w] = l /\ \A v \in Way : v # w => line'[v] = line[v]
    BY <1>2 DEF SetsSector, TagsOK
  <2>2. l.tag = line[w].tag /\ \A t \in Sectors : l.status[t] = IF t = s THEN x ELSE line[w].status[t]
    BY <1>2 DEF SetsSector, Sets
  <2>3. line[w].tag \in Blocks
    BY <1>2 DEF SetsSector, TagsOK
  <2>4. line[w].status[s] = "MODIFIED" => x = "MODIFIED"
    <3>1. line[w].status[s] = "MODIFIED" => MayModify(line[w].tag)
      BY <1>2 DEF DirtyRight, IsModified
    <3> QED BY <1>2, <3>1 DEF SetsNewest, SetsDirty
  <2>5. ASSUME NEW a \in newest'
        PROVE  a \in Addr /\ \E v \in Way : line'[v].tag = a[1] /\ line'[v].status[a[2]] = "MODIFIED"
    <3>1. CASE a \in newest
      <4>1. a \in Addr /\ a[2] \in Sectors
        BY <3>1 DEF NewestKept, Addr
      <4>2. PICK v \in Way : line[v].tag = a[1] /\ line[v].status[a[2]] = "MODIFIED"
        BY <3>1 DEF NewestKept
      <4>3. line'[v].tag = a[1] /\ line'[v].status[a[2]] = "MODIFIED"
        BY <2>1, <2>2, <2>4, <4>1, <4>2
      <4> QED BY <4>1, <4>3
    <3>2. CASE a = <<line[w].tag, s>> /\ x = "MODIFIED"
      <4>1. a \in Addr /\ a[1] = line[w].tag /\ a[2] = s
        BY <1>2, <2>3, <3>2 DEF Addr
      <4> QED BY <2>1, <2>2, <3>2, <4>1
    <3> QED BY <1>2, <3>1, <3>2 DEF SetsNewest
  <2>6. config.write = "WRITE_THROUGH" => newest' = {}
    BY <1>2 DEF SetsNewest, NewestKept
  <2> QED BY <1>0, <2>5, <2>6 DEF NewestKept
<1>3. ASSUME NEW w \in Way, NEW l \in Line, NEW a \in Addr, TakesWay(w, l, a), TakesNewest(w)
      PROVE  NewestKept'
  <2>1. line'[w] = l /\ \A v \in Way : v # w => line'[v] = line[v]
    BY <1>3 DEF TakesWay, TagsOK
  <2>2. newest' \subseteq newest
    BY <1>3 DEF TakesNewest
  <2>3. ASSUME NEW b \in newest'
        PROVE  \E v \in Way : line'[v].tag = b[1] /\ line'[v].status[b[2]] = "MODIFIED"
    <3>1. b \in newest /\ b[2] \in Sectors /\ b = <<b[1], b[2]>> /\ config.write # "WRITE_THROUGH"
      BY <2>2 DEF NewestKept, Addr
    <3>2. PICK v \in Way : line[v].tag = b[1] /\ line[v].status[b[2]] = "MODIFIED"
      BY <3>1 DEF NewestKept
    <3>3. v # w
      BY <1>3, <3>1, <3>2 DEF TakesNewest
    <3> QED BY <2>1, <3>2, <3>3
  <2> QED BY <1>0, <2>2, <2>3 DEF NewestKept
<1>4. CASE Clears
  BY <1>4 DEF Clears, NewestKept
<1> QED BY <1>2, <1>1, <1>3, <1>4 DEF Step, SomeSector, SomeWay

LEMMA AwaitedStep ==
  ASSUME TagsOK, TagsOK', FieldsIn, ReservedAwaited, MaxMerged <= 1, Step
  PROVE  ReservedAwaited'
<1>1. CASE Untouched
  <2> SUFFICES ASSUME NEW v \in Way, NEW t \in Sectors, line'[v].status[t] = "RESERVED"
               PROVE  \E f \in fields' : f.way = v /\ f.mf.addr = <<line'[v].tag, t>>
    BY DEF ReservedAwaited
  <2>1. line' = line
    BY <1>1 DEF Untouched
  <2>2. PICK g \in fields : g.way = v /\ g.mf.addr = <<line[v].tag, t>>
    BY <2>1 DEF ReservedAwaited
  <2>3. PICK f \in fields' : SameFetch(f, g)
    BY <1>1 DEF Untouched, FetchesStay
  <2> QED BY <2>1, <2>2, <2>3 DEF SameFetch
<1>2. ASSUME NEW w \in Way, NEW l \in Line, NEW s \in Sectors, NEW x \in State, SetsSector(w, l, s, x)
      PROVE  ReservedAwaited'
  <2>1. line'[w] = l /\ \A v \in Way : v # w => line'[v] = line[v]
    BY <1>2 DEF SetsSector, TagsOK
  <2>2. l.tag = line[w].tag /\ \A t \in Sectors : l.status[t] = IF t = s THEN x ELSE line[w].status[t]
    BY <1>2 DEF SetsSector, Sets
  <2> SUFFICES ASSUME NEW v \in Way, NEW t \in Sectors, line'[v].status[t] = "RESERVED"
               PROVE  \E f \in fields' : f.way = v /\ f.mf.addr = <<line'[v].tag, t>>
    BY DEF ReservedAwaited
  <2>3. CASE v = w /\ t = s
    <3>1. x = "RESERVED"
      BY <2>1, <2>2, <2>3
    <3>2. line'[v].tag = line[w].tag
      BY <2>1, <2>2, <2>3
    <3>3. \E f \in fields' : f.way = w /\ f.mf.addr = <<line[w].tag, s>>
      BY <1>2, <3>1 DEF SetsSector
    <3> QED BY <2>3, <3>2, <3>3
  <2>4. CASE ~(v = w /\ t = s)
    <3>1. line[v].status[t] = "RESERVED" /\ line'[v].tag = line[v].tag
      BY <2>1, <2>2, <2>4
    <3>2. PICK g \in fields : g.way = v /\ g.mf.addr = <<line[v].tag, t>>
      BY <3>1 DEF ReservedAwaited
    <3>3. ~(g.way = w /\ g.mf.addr[2] = s)
      BY <2>4, <3>2
    <3>4. PICK f \in fields' : SameFetch(f, g)
      BY <1>2, <3>3 DEF SetsSector
    <3> QED BY <3>1, <3>2, <3>4 DEF SameFetch
  <2> QED BY <2>3, <2>4
<1>3. ASSUME NEW w \in Way, NEW l \in Line, NEW a \in Addr, TakesWay(w, l, a)
      PROVE  ReservedAwaited'
  <2>1. line'[w] = l /\ \A v \in Way : v # w => line'[v] = line[v]
    BY <1>3 DEF TakesWay, TagsOK
  <2>2. l.tag = a[1] /\ a = <<a[1], a[2]>> /\ \A t \in Sectors : l.status[t] = IF t = a[2] THEN "RESERVED" ELSE "INVALID"
    BY <1>3 DEF TakesWay, Fresh, Addr
  <2> SUFFICES ASSUME NEW v \in Way, NEW t \in Sectors, line'[v].status[t] = "RESERVED"
               PROVE  \E f \in fields' : f.way = v /\ f.mf.addr = <<line'[v].tag, t>>
    BY DEF ReservedAwaited
  <2>3. CASE v = w
    <3>1. t = a[2] /\ line'[v].tag = a[1]
      BY <2>1, <2>2, <2>3
    <3>2. \E f \in fields' : f.way = w /\ f.mf.addr = a
      BY <1>3 DEF TakesWay
    <3> QED BY <2>2, <2>3, <3>1, <3>2
  <2>4. CASE v # w
    <3>1. line[v].status[t] = "RESERVED" /\ line'[v].tag = line[v].tag
      BY <2>1, <2>4
    <3>2. PICK g \in fields : g.way = v /\ g.mf.addr = <<line[v].tag, t>>
      BY <3>1 DEF ReservedAwaited
    <3>3. PICK f \in fields' : SameFetch(f, g)
      BY <1>3 DEF TakesWay
    <3> QED BY <3>1, <3>2, <3>3 DEF SameFetch
  <2> QED BY <2>3, <2>4
<1>4. CASE Clears
  <2> SUFFICES ASSUME NEW v \in Way, NEW t \in Sectors, line'[v].status[t] = "RESERVED"
               PROVE  \E f \in fields' : f.way = v /\ f.mf.addr = <<line'[v].tag, t>>
    BY DEF ReservedAwaited
  <2>1. line'[v] = line[v]
    BY <1>4 DEF Clears, IsInvalid
  <2>a. ReservedAwaited /\ v \in Way /\ t \in Sectors /\ line[v].status[t] = "RESERVED"
    BY <2>1
  <2>2. PICK g \in fields : g.way = v /\ g.mf.addr = <<line[v].tag, t>>
    BY ONLY <2>a DEF ReservedAwaited
  <2>3. PICK f \in fields' : SameFetch(f, g)
    BY <1>4 DEF Clears, FetchesStay
  <2> QED BY <2>1, <2>2, <2>3 DEF SameFetch
<1> QED BY <1>1, <1>2, <1>3, <1>4 DEF Step, SomeSector, SomeWay

-------------------------------------------------------------------------------
(* Every action is such a step. *)

\* Atomic requests come only where the configuration has them.
Kinds ==
  /\ head # None /\ head.kind = "atomic" => Atomics
  /\ \A a \in DOMAIN mshr : \A m \in Range(mshr[a]) : m.kind = "atomic" => Atomics

Ready == Cached /\ ReservedUntilFill /\ Targeted /\ DataHere /\ Kinds

LEMMA ReadyIs ==
  ASSUME Ready
  PROVE  /\ TagsOK /\ MissesOK /\ EntriesOK /\ FieldsIn
         /\ config.alloc \in {"NO_WRITE_ALLOCATE", "WRITE_ALLOCATE"}
         /\ config.invalidates \subseteq {"flush"}
         /\ config.invalidates # {} => \E s : Sectors = {s}
         /\ \A w \in Way : line[w] \in Line /\ Plain(line[w])
         /\ have \in Haves /\ dirty \in Int
<1>1. TagsOK /\ MissesOK /\ EntriesOK
  BY DEF Ready, Cached
<1>2. FieldsIn
  <2>1. \A f \in fields : f.way \in Way /\ f.mf \in Msg
    BY <1>1 DEF MissesOK
  <2>2. \A m \in Msg : m.addr \in Addr
    BY DEF Msg, Request, Fetch
  <2> QED BY <2>1, <2>2 DEF FieldsIn
<1>3. config.alloc \in {"NO_WRITE_ALLOCATE", "WRITE_ALLOCATE"}
      /\ config.invalidates \subseteq IF Cardinality(Sectors) = 1 THEN {"flush"} ELSE {}
  BY DEF Ready, ReservedUntilFill
<1>4. config.invalidates # {} => \E s : Sectors = {s}
  <2>1. IsFiniteSet(Sectors)
    BY CacheAssumption
  <2> QED BY <1>3, <2>1, FS_Singleton
<1>5. \A w \in Way : line[w] \in Line /\ Plain(line[w])
  BY <1>1 DEF Ready, Targeted, TagsOK
<1>6. have \in Haves /\ dirty \in Int
  BY <1>1 DEF Ready, DataHere, TagsOK
<1> QED BY <1>1, <1>2, <1>3, <1>4, <1>5, <1>6

\* A hit: nothing is on its way for the sector.
LEMMA HitIs ==
  ASSUME Ready, head # None, NEW p, p = Probed, p.status = "HIT"
  PROVE  /\ p.way \in Way /\ ~IsInvalid(line[p.way]) /\ line[p.way].tag = head.addr[1]
         /\ head.addr \in Addr /\ head.addr[2] \in Sectors /\ head.addr = <<line[p.way].tag, head.addr[2]>>
         /\ head.bytes \in Masks /\ head.bytes \subseteq Bytes
         /\ line[p.way].status[head.addr[2]] \in {"VALID", "MODIFIED"}
         /\ have[p.way][head.addr[2]] = Bytes
         /\ \A f \in fields : ~(f.way = p.way /\ f.mf.addr[2] = head.addr[2])
<1>1. TagsOK /\ head \in Request
  BY ReadyIs DEF MissesOK
<1>2. head.addr \in Addr /\ head.bytes \in Masks /\ head.bytes \subseteq Bytes
  BY <1>1 DEF Request, Bytes
<1>3. head.addr[2] \in Sectors /\ head.addr = <<head.addr[1], head.addr[2]>>
  BY <1>2 DEF Addr
<1>4. /\ p.way \in Way /\ ~IsInvalid(line[p.way]) /\ line[p.way].tag = head.addr[1]
      /\ line[p.way].status[head.addr[2]] \in {"VALID", "MODIFIED"}
  BY <1>1, <1>2, ProbeFinds DEF Probed
<1>5. have[p.way][head.addr[2]] = Bytes
  BY <1>3, <1>4 DEF Ready, DataHere
<1>6. \A f \in fields : ~(f.way = p.way /\ f.mf.addr[2] = head.addr[2])
  BY <1>4 DEF Ready, Targeted, Waits
<1> QED BY <1>2, <1>3, <1>4, <1>5, <1>6

LEMMA HitStep ==
  ASSUME Ready, NEW w \in Way, NEW l \in Line, NEW s \in Sectors, NEW x \in State, x # "RESERVED",
         Sets(line[w], l, s, x), ~IsInvalid(line[w]), line' = [line EXCEPT ![w] = l],
         fields' = fields, \A f \in fields : ~(f.way = w /\ f.mf.addr[2] = s),
         SetsData(w, s, x), SetsDirty(w, l, s, x), SetsNewest(w, s, x), config' = config
  PROVE  Step
<1>1. SetsSector(w, l, s, x)
  BY DEF SetsSector, SameFetch
<1> QED BY <1>1 DEF Step, SomeSector

LEMMA ChangeIs ==
  ASSUME NEW o, NEW l, NEW s \in Sectors, NEW x,
         \A t \in Sectors : l.status[t] = IF t = s THEN x ELSE o.status[t]
  PROVE  /\ x = "MODIFIED" => IsModified(l)
         /\ x # "MODIFIED" /\ IsModified(l) => IsModified(o)
         /\ x # "MODIFIED" /\ o.status[s] # "MODIFIED" => (IsModified(l) <=> IsModified(o))
         /\ x = o.status[s] => (IsModified(l) <=> IsModified(o))
BY DEF IsModified

LEMMA DirtyWithIs ==
  ASSUME NEW o, NEW l, IsModified(l), dirty \in Int
  PROVE  DirtyWith(dirty, o) = dirty + Change(o, l)
BY DEF DirtyWith, Change

LEMMA ReadHitStep ==
  ASSUME Ready, ReadHit, config' = config PROVE Step
<1> PICK p : p = Probed
  OBVIOUS
<1> PICK w, s, o : w = p.way /\ s = head.addr[2] /\ o = line[w]
  OBVIOUS
<1>1. head # None /\ p.status = "HIT" /\ fields' = fields /\ have' = have
  BY DEF ReadHit, misses
<1>2. /\ w \in Way /\ ~IsInvalid(line[w]) /\ s \in Sectors /\ o.status[s] \in {"VALID", "MODIFIED"}
      /\ have[w][s] = Bytes /\ \A f \in fields : ~(f.way = w /\ f.mf.addr[2] = s)
      /\ head.addr \in Addr /\ head.bytes \in Masks
  BY <1>1, HitIs
<1>3. o \in Line /\ Plain(o) /\ have \in Haves /\ dirty \in Int
  BY <1>2, ReadyIs
<1>4. \A x : SetsData(w, s, x)
  BY <1>1, <1>2, <1>3 DEF SetsData
<1>5. CASE head.kind = "atomic"
  <2>1. line' = [line EXCEPT ![w] = Modified(o, head)] /\ dirty' = DirtyWith(dirty, o)
    BY <1>5 DEF ReadHit, SetTags
  <2>2. Atomics
    BY <1>1, <1>5 DEF Ready, Kinds
  <2>3. PICK l : l = Modified(o, head)
    OBVIOUS
  <2>4. Sets(o, l, s, "MODIFIED")
    BY <1>2, <1>3, <2>3, ModifiedSets
  <2>5. dirty' = dirty + Change(o, l)
    <3>1. IsModified(l)
      BY <1>2, <2>4 DEF Sets, IsModified
    <3> QED BY <1>3, <2>1, <3>1, DirtyWithIs
  <2>6. SetsDirty(w, l, s, "MODIFIED") /\ SetsNewest(w, s, "MODIFIED") /\ l \in Line /\ "MODIFIED" \in State
    BY <2>2, <2>4, <2>5 DEF SetsDirty, SetsNewest, Sets, State
  <2> QED BY <1>1, <1>2, <1>4, <2>1, <2>3, <2>4, <2>6, HitStep
<1>6. CASE head.kind # "atomic"
  <2>1. line' = [line EXCEPT ![w] = o] /\ dirty' = dirty /\ newest' = newest
    BY <1>6 DEF ReadHit, SetTags
  <2>2. PICK x : x = o.status[s]
    OBVIOUS
  <2>3. Sets(o, o, s, x) /\ x \in State /\ x \in {"VALID", "MODIFIED"}
    BY <1>2, <1>3, <2>2 DEF Sets, State
  <2>4. dirty' = dirty + Change(o, o)
    BY <1>3, <2>1 DEF Change
  <2>5. SetsDirty(w, o, s, x) /\ SetsNewest(w, s, x)
    BY <2>1, <2>2, <2>3, <2>4 DEF SetsDirty, SetsNewest
  <2> QED BY <1>1, <1>2, <1>3, <1>4, <2>1, <2>3, <2>5, HitStep
<1> QED BY <1>5, <1>6

\* What Has leaves in a line that is not new.
LEMMA HasIs ==
  ASSUME have \in Haves, NEW p, p.way \in Way, NEW m, m.addr[2] \in Sectors, NEW bs \in SUBSET Bytes,
         Has(p, m, bs)
  PROVE  /\ have' \in Haves
         /\ \A v \in Way : v # p.way => have'[v] = have[v]
         /\ p.status # "MISS" =>
              /\ \A t \in Sectors : t # m.addr[2] => have'[p.way][t] = have[p.way][t]
              /\ have[p.way][m.addr[2]] \subseteq have'[p.way][m.addr[2]]
<1> DEFINE With(h, s) == [h EXCEPT ![s] = h[s] \cup bs]
           Put(h) == [have EXCEPT ![p.way] = h]
<1>1. PICK h : /\ h = IF p.status = "MISS" THEN [s \in Sectors |-> {}] ELSE have[p.way]
               /\ h \in [Sectors -> SUBSET Bytes]
  <2>1. [s \in Sectors |-> {}] \in [Sectors -> SUBSET Bytes]
    OBVIOUS
  <2>2. have[p.way] \in [Sectors -> SUBSET Bytes]
    BY DEF Haves
  <2> QED BY <2>1, <2>2, Zenon
<1>2. PICK g : g = With(h, m.addr[2])
  OBVIOUS
<1>3. have' = Put(g)
  BY <1>1, <1>2 DEF Has
<1>4. g \in [Sectors -> SUBSET Bytes]
      /\ \A t \in Sectors : g[t] = IF t = m.addr[2] THEN h[t] \cup bs ELSE h[t]
  BY <1>1, <1>2
<1>5. Put(g) \in Haves /\ Put(g)[p.way] = g /\ \A v \in Way : v # p.way => Put(g)[v] = have[v]
  BY <1>4 DEF Haves
<1> HIDE DEF Put, With
<1> QED BY <1>1, <1>3, <1>4, <1>5

\* A write to a line that is there.
LEMMA WriteHitStep ==
  ASSUME Ready, WriteHit, config' = config PROVE Step
<1> PICK p : p = Probed
  OBVIOUS
<1> PICK w, s, o : w = p.way /\ s = head.addr[2] /\ o = line[w]
  OBVIOUS
<1>1. head # None /\ p.status = "HIT"
  BY DEF WriteHit
<1>2. /\ w \in Way /\ ~IsInvalid(line[w]) /\ s \in Sectors /\ o.status[s] \in {"VALID", "MODIFIED"}
      /\ o.tag = head.addr[1] /\ head.addr = <<o.tag, s>>
      /\ have[w][s] = Bytes /\ \A f \in fields : ~(f.way = w /\ f.mf.addr[2] = s)
      /\ head.addr \in Addr /\ head.bytes \in Masks /\ head.bytes \subseteq Bytes
  BY <1>1, HitIs
<1>3. o \in Line /\ Plain(o) /\ have \in Haves /\ dirty \in Int
  BY <1>2, ReadyIs
<1>4. PICK l : l = Readable(Modified(o, head), s)
  OBVIOUS
<1>5. Sets(o, l, s, "MODIFIED") /\ l \in Line /\ IsModified(l) /\ "MODIFIED" \in State
  <2>1. Sets(o, l, s, "MODIFIED")
    BY <1>2, <1>3, <1>4, WrittenSets
  <2> QED BY <1>2, <2>1 DEF Sets, IsModified, State
<1>6. DirtyWith(dirty, o) = dirty + Change(o, l)
  BY <1>3, <1>5, DirtyWithIs
<1>7. Has(p, head, head.bytes) => SetsData(w, s, "MODIFIED")
  <2> SUFFICES ASSUME Has(p, head, head.bytes) PROVE SetsData(w, s, "MODIFIED")
    OBVIOUS
  <2>1. head.bytes \in SUBSET Bytes /\ head.addr[2] \in Sectors /\ p.way \in Way /\ p.status # "MISS"
    BY <1>1, <1>2
  <2>2. PICK bs \in SUBSET Bytes : bs = head.bytes /\ Has(p, head, bs)
    BY <2>1
  <2>3. /\ have' \in Haves /\ \A v \in Way : v # w => have'[v] = have[v]
        /\ \A t \in Sectors : t # s => have'[w][t] = have[w][t]
        /\ have[w][s] \subseteq have'[w][s]
    BY <1>3, <2>1, <2>2, HasIs
  <2>4. have'[w][s] \subseteq Bytes
    BY <1>2, <2>3 DEF Haves
  <2> QED BY <1>2, <2>3, <2>4 DEF SetsData
<1>8. ASSUME MayModify(o.tag), SetTags(p, l, DirtyWith(dirty, o)), Has(p, head, head.bytes), fields' = fields,
             SetsNewest(w, s, "MODIFIED")
      PROVE  Step
  <2>1. line' = [line EXCEPT ![w] = l] /\ dirty' = dirty + Change(o, l)
    BY <1>6, <1>8 DEF SetTags
  <2>2. SetsDirty(w, l, s, "MODIFIED")
    BY <1>8, <2>1 DEF SetsDirty
  <2> QED BY <1>2, <1>5, <1>7, <1>8, <2>1, <2>2, HitStep
<1>9. CASE config.write = "WRITE_THROUGH"
  <2>1. WriteHitThrough(p)
    BY <1>9 DEF WriteHit
  <2>2. SetTags(p, l, DirtyWith(dirty, o)) /\ Has(p, head, head.bytes) /\ fields' = fields /\ newest' = newest
    BY <1>4, <2>1 DEF WriteHitThrough
  <2>3. MayModify(o.tag)
    BY <1>9 DEF MayModify
  <2>4. SetsNewest(w, s, "MODIFIED")
    BY <2>2 DEF SetsNewest
  <2> QED BY <1>8, <2>2, <2>3, <2>4
<1>10. CASE config.write = "WRITE_EVICT" \/ (config.write = "LOCAL_WB_GLOBAL_WT" /\ head.addr[1] \notin config.local)
  <2>1. WriteHitEvict(p)
    BY <1>10 DEF WriteHit
  <2>2. /\ line' = [line EXCEPT ![w].status[s] = "INVALID"] /\ have' = [have EXCEPT ![w][s] = {}]
        /\ dirty' = dirty /\ fields' = fields /\ newest' = newest
    BY <2>1 DEF WriteHitEvict
  <2>3. PICK k : k = [o EXCEPT !.status[s] = "INVALID"]
    OBVIOUS
  <2>4. line' = [line EXCEPT ![w] = k]
    BY <1>2, <2>2, <2>3, ReadyIs DEF TagsOK
  <2>5. Sets(o, k, s, "INVALID") /\ k \in Line
    BY <1>2, <1>3, <2>3, InvalidSets DEF Sets
  <2>6. SetsData(w, s, "INVALID")
    <3>1. have' \in Haves /\ \A v \in Way : \A t \in Sectors : have'[v][t] = have[v][t] \/ (v = w /\ t = s)
      BY <1>2, <1>3, <2>2 DEF Haves
    <3> QED BY <3>1 DEF SetsData
  <2>7. ~MayModify(o.tag)
    BY <1>2, <1>10 DEF MayModify
  <2>8. SetsDirty(w, k, s, "INVALID") /\ SetsNewest(w, s, "INVALID") /\ "INVALID" \in State
    BY <2>2, <2>7 DEF SetsDirty, SetsNewest, State
  <2>9. Sets(line[w], k, s, "INVALID") /\ fields' = fields /\ config' = config /\ "INVALID" # "RESERVED"
    BY <2>2, <2>5
  <2> QED BY ONLY Ready, <1>2, <2>4, <2>5, <2>6, <2>8, <2>9, HitStep
<1>11. CASE config.write # "WRITE_THROUGH" /\ ~(config.write = "WRITE_EVICT" \/ (config.write = "LOCAL_WB_GLOBAL_WT" /\ head.addr[1] \notin config.local))
  <2>1. WriteHitBack(p)
    BY <1>11 DEF WriteHit
  <2>2. SetTags(p, l, DirtyWith(dirty, o)) /\ Has(p, head, head.bytes) /\ fields' = fields
        /\ newest' = (newest \ SentDown(p)) \cup {head.addr}
    BY <1>4, <2>1 DEF WriteHitBack, misses, Written
  <2>3. MayModify(o.tag)
    BY <1>2, <1>11 DEF MayModify
  <2>4. SetsNewest(w, s, "MODIFIED")
    BY <1>2, <1>11, <2>2 DEF SetsNewest
  <2> QED BY <1>8, <2>2, <2>3, <2>4
<1> QED BY <1>9, <1>10, <1>11

\* The fetches after a read is sent: with entries for one request each it is always a new one.
LEMMA FetchIs ==
  ASSUME Ready, NEW p, NEW m, NEW q, CanSendRead(m.addr, q), SendRead(m, q, p)
  PROVE  /\ \A f \in fields' : (\E g \in fields : SameFetch(f, g)) \/ (f.way = p.way /\ f.mf = m)
         /\ \A g \in fields : \E f \in fields' : SameFetch(f, g)
         /\ MaxMerged <= 1 => \E f \in fields' : f.way = p.way /\ f.mf = m
<1>1. CASE m.addr \in DOMAIN mshr
  <2>1. fields' = fields
    BY <1>1 DEF SendRead
  <2>2. ~(MaxMerged <= 1)
    <3>1. mshr[m.addr] \in Seq(Msg) /\ mshr[m.addr] # << >>
      BY <1>1, ReadyIs DEF MissesOK
    <3>2. Len(mshr[m.addr]) \in Nat /\ Len(mshr[m.addr]) # 0
      BY <3>1
    <3>3. Len(mshr[m.addr]) < MaxMerged
      BY <1>1 DEF CanSendRead, Merges, NewEntry
    <3>4. MaxMerged \in Nat
      BY CacheAssumption
    <3> QED BY <3>2, <3>3, <3>4
  <2> QED BY <2>1, <2>2 DEF SameFetch
<1>2. CASE m.addr \notin DOMAIN mshr
  <2>1. fields' = fields \cup {[mf |-> m, way |-> p.way, left |-> SubReads]}
    BY <1>2 DEF SendRead
  <2>2. PICK e : e = [mf |-> m, way |-> p.way, left |-> SubReads]
    OBVIOUS
  <2>3. fields' = fields \cup {e} /\ e.mf = m /\ e.way = p.way
    BY <2>1, <2>2
  <2> QED BY <2>3 DEF SameFetch
<1> QED BY <1>1, <1>2

\* A read or a write-allocate that sends a fetch.
LEMMA MissStep ==
  ASSUME Ready, head # None, NEW p, p = Probed, p.status \notin {"HIT", "RESERVATION_FAIL"},
         NEW m, m.addr = head.addr, NEW q, CanSendRead(head.addr, q), SendRead(m, q, p),
         SetTags(p, Accessed(head.addr, p), DirtyAfter(head.addr, p)),
         Fetched(head, p), Has(p, head, {}), config' = config
  PROVE  Step
<1> PICK w, a, o, l : w = p.way /\ a = head.addr /\ o = line[w] /\ l = Accessed(a, p)
  OBVIOUS
<1>1. TagsOK /\ head \in Request /\ have \in Haves /\ dirty \in Int
  BY ReadyIs DEF MissesOK
<1>2. a \in Addr /\ a[1] \in Blocks /\ a[2] \in Sectors /\ a = <<a[1], a[2]>>
  BY <1>1 DEF Request, Addr
<1>3. w \in Way /\ l \in Line
  <2>1. p = Probe(a, IsWrite(head))
    BY DEF Probed
  <2> QED BY <1>1, <1>2, <2>1, AccessedIs
<1>4. o \in Line /\ Plain(o)
  BY <1>3, ReadyIs
<1>5. line' = [line EXCEPT ![w] = l]
      /\ dirty' = IF IsModified(o) /\ ~IsModified(l) THEN dirty - 1 ELSE dirty
  BY DEF SetTags, DirtyAfter
<1>6. /\ \A f \in fields' : (\E g \in fields : SameFetch(f, g)) \/ (f.way = w /\ f.mf.addr = a)
      /\ \A g \in fields : \E f \in fields' : SameFetch(f, g)
      /\ MaxMerged <= 1 => \E f \in fields' : f.way = w /\ f.mf.addr = a
  <2>1. CanSendRead(m.addr, q)
    OBVIOUS
  <2> QED BY <2>1, FetchIs
<1>7. /\ have' \in Haves /\ \A v \in Way : v # w => have'[v] = have[v]
      /\ p.status # "MISS" => \A t \in Sectors : t # a[2] => have'[w][t] = have[w][t]
  <2>1. PICK bs \in SUBSET Bytes : bs = {}
    OBVIOUS
  <2>2. Has(p, head, bs) /\ p.way \in Way /\ head.addr[2] \in Sectors
    BY <1>2, <1>3, <2>1
  <2> QED BY <1>1, <2>2, HasIs
<1>8. ~Atomics => newest' = newest \ SentDown(p)
  <2>1. ~Atomics => ~Mutates(head)
    <3>1. ~Atomics => head.kind # "atomic"
      BY DEF Ready, Kinds
    <3>2. config.alloc # "FETCH_ON_WRITE"
      BY ReadyIs
    <3> QED BY <3>1, <3>2 DEF Mutates
  <2> QED BY <2>1 DEF Fetched
<1>9. CASE p.status = "MISS" /\ Fresh(l, a) /\ ~IsReserved(o) /\ \A v \in Way : line[v].tag = a[1] => IsInvalid(line[v])
  <2>1. TakesWay(w, l, a)
    BY <1>2, <1>3, <1>5, <1>6, <1>9 DEF TakesWay
  <2>2. TakesData(w)
    BY <1>7 DEF TakesData
  <2>3. TakesDirty(w, l)
    <3>1. ~IsModified(l)
      BY <1>9 DEF Fresh, IsModified
    <3> QED BY <1>1, <1>5, <3>1 DEF TakesDirty, Change
  <2>4. TakesNewest(w)
    <3>1. config.write # "WRITE_THROUGH" => \A t \in Sectors : o.status[t] = "MODIFIED" => <<o.tag, t>> \in SentDown(p)
      <4> SUFFICES ASSUME config.write # "WRITE_THROUGH", NEW t \in Sectors, o.status[t] = "MODIFIED"
                   PROVE  <<o.tag, t>> \in SentDown(p)
        OBVIOUS
      <4> DEFINE b == [kind |-> "writeback", block |-> o.tag,
                       sectors |-> {u \in Sectors : o.status[u] = "MODIFIED"}]
      <4>1. WriteBacks(p) = <<b>>
        BY <1>9 DEF WriteBacks, IsModified
      <4>2. b \in Range(WriteBacks(p)) /\ t \in b.sectors
        BY <4>1 DEF Range
      <4> HIDE DEF b
      <4> QED BY <4>2 DEF SentDown
    <3> QED BY <1>8, <3>1 DEF TakesNewest
  <2> QED BY <1>2, <1>3, <2>1, <2>2, <2>3, <2>4 DEF Step, SomeWay
<1>10. CASE p.status # "MISS" /\ Sets(o, l, a[2], "RESERVED") /\ ~IsInvalid(o) /\ o.tag = a[1] /\ o.status[a[2]] \in {"INVALID", "RESERVED"}
  <2> PICK s : s = a[2]
    OBVIOUS
  <2>1. SetsSector(w, l, s, "RESERVED")
    BY <1>2, <1>3, <1>5, <1>6, <1>10 DEF SetsSector
  <2>2. SetsData(w, s, "RESERVED")
    BY <1>7, <1>10 DEF SetsData
  <2>3. SetsDirty(w, l, s, "RESERVED")
    <3>1. IsModified(l) => IsModified(o)
      BY <1>2, <1>10 DEF Sets, IsModified
    <3> QED BY <1>1, <1>5, <3>1 DEF SetsDirty, Change
  <2>4. SetsNewest(w, s, "RESERVED")
    BY <1>8, <1>10 DEF SetsNewest
  <2> QED BY <1>2, <1>3, <2>1, <2>2, <2>3, <2>4 DEF Step, SomeSector, State
<1> QED BY <1>1, <1>2, <1>4, <1>9, <1>10, AccessedSets DEF Probed

LEMMA ReadMissStep ==
  ASSUME Ready, ReadMiss, config' = config PROVE Step
<1> PICK p : p = Probed
  OBVIOUS
<1>1. /\ head # None /\ p.status \notin {"HIT", "RESERVATION_FAIL"} /\ CanSendRead(head.addr, queue)
      /\ SetTags(p, Accessed(head.addr, p), DirtyAfter(head.addr, p))
      /\ SendRead(head, queue, p) /\ Fetched(head, p) /\ Has(p, head, {})
  BY DEF ReadMiss
<1>2. PICK m, q : m = head /\ q = queue
  OBVIOUS
<1>3. m.addr = head.addr /\ CanSendRead(head.addr, q) /\ SendRead(m, q, p)
  BY <1>1, <1>2
<1>4. Ready /\ config' = config
  OBVIOUS
<1> QED BY ONLY <1>1, <1>3, <1>4, p = Probed, MissStep

\* Without write-allocate a write that misses changes nothing here; with it, it fetches.
LEMMA WriteMissStep ==
  ASSUME Ready, WriteMiss, config' = config PROVE Step
<1> PICK p : p = Probed
  OBVIOUS
<1>1. head # None /\ IsWrite(head) /\ p.status # "HIT"
      /\ (p.status = "RESERVATION_FAIL" => config.alloc = "NO_WRITE_ALLOCATE")
  BY DEF WriteMiss
<1>2. CASE config.alloc = "NO_WRITE_ALLOCATE"
  <2>1. WriteMissNoAllocate
    BY <1>2 DEF WriteMiss
  <2>2. Untouched
    BY <2>1 DEF WriteMissNoAllocate, tags, ghosts, Untouched, FetchesStay, SameFetch
  <2> QED BY <2>2 DEF Step
<1>3. CASE config.alloc = "WRITE_ALLOCATE"
  <2>1. WriteMissNaive(p)
    BY <1>3 DEF WriteMiss
  <2>2. PICK q : q = Append(queue, head)
    OBVIOUS
  <2>3. ~QueueFull(2) /\ CanSendRead(head.addr, queue)
    BY <2>1 DEF WriteMissNaive
  <2>4. CanSendRead(head.addr, q)
    <3>1. MissesOK /\ head \in Item /\ queue \in Seq(Item)
      <4>1. MissesOK
        BY ReadyIs
      <4> QED BY <1>1, <4>1 DEF MissesOK, Item, Msg
    <3>2. Len(queue) + 2 + 1 <= MissQueueSize
      BY <2>3, <3>1, RoomIs
    <3>3. Len(q) = Len(queue) + 1 /\ Len(queue) \in Nat /\ MissQueueSize \in Nat
      BY <2>2, <3>1, CacheAssumption
    <3>4. Len(q) < MissQueueSize
      BY <3>2, <3>3
    <3> QED BY <2>3, <3>4 DEF CanSendRead
  <2>5. PICK m : m = FetchFor(None)
    OBVIOUS
  <2>6. /\ SetTags(p, Accessed(head.addr, p), DirtyAfter(head.addr, p))
        /\ SendRead(m, q, p) /\ Fetched(head, p) /\ Has(p, head, {})
    BY <2>1, <2>2, <2>4, <2>5 DEF WriteMissNaive
  <2>7. m.addr = head.addr
    BY <2>5 DEF FetchFor
  <2>8. Ready /\ config' = config /\ head # None /\ p.status \notin {"HIT", "RESERVATION_FAIL"}
    BY <1>1, <1>3
  <2> QED BY ONLY <2>4, <2>6, <2>7, <2>8, p = Probed, MissStep
<1>4. config.alloc \in {"NO_WRITE_ALLOCATE", "WRITE_ALLOCATE"}
  BY ReadyIs
<1> QED BY <1>2, <1>3, <1>4

\* Two fetches for one sector of one line are one.
LEMMA FetchesApart ==
  ASSUME Ready, NEW f \in fields, NEW g \in fields, g.way = f.way, g.mf.addr[2] = f.mf.addr[2]
  PROVE  g = f
<1>1. g.mf.addr \in Addr /\ f.mf.addr \in Addr
  BY ReadyIs DEF FieldsIn
<1>2. g.mf.addr[1] = f.mf.addr[1]
  BY DEF Ready, Targeted, Waits
<1>3. g.mf.addr = f.mf.addr
  BY <1>1, <1>2 DEF Addr
<1> QED BY <1>3, ReadyIs DEF EntriesOK

\* A fetch that has not all its answers.
LEMMA FillPartStep ==
  ASSUME Ready, NEW f \in fields, f.left > 1, Fill(f), config' = config PROVE Step
<1>1. fields' = (fields \ {f}) \cup {[f EXCEPT !.left = @ - 1]} /\ UNCHANGED <<line, dirty, newest, have>>
  BY DEF Fill, tags, ghosts
<1>2. PICK e : e = [f EXCEPT !.left = @ - 1]
  OBVIOUS
<1>3. f \in [mf : Msg, way : Way, left : 1 .. SubReads]
  BY ReadyIs DEF MissesOK
<1>4. SameFetch(e, f) /\ SameFetch(f, e)
  BY <1>2, <1>3 DEF SameFetch
<1>5. \A g : SameFetch(g, g)
  BY DEF SameFetch
<1>6. fields' = (fields \ {f}) \cup {e}
  BY <1>1, <1>2
<1>7. FetchesStay
  BY <1>4, <1>5, <1>6 DEF FetchesStay
<1> QED BY <1>1, <1>7 DEF Step, Untouched

\* The line that the last answer leaves, without and with an atomic to perform.
LEMMA FillMakes ==
  ASSUME NEW o \in Line, Plain(o), NEW m, m.addr \in Addr, m.bytes \in Masks,
         o.status[m.addr[2]] = "RESERVED", dirty \in Int,
         NEW l, l = Filled(o, m), NEW k, k = Modified(l, m)
  PROVE  /\ Sets(o, l, m.addr[2], "VALID") /\ DirtyFilled(o, m) = dirty + Change(o, l)
         /\ Sets(o, k, m.addr[2], "MODIFIED") /\ DirtyWith(DirtyFilled(o, m), l) = dirty + Change(o, k)
<1>1. m.addr[2] \in Sectors
  BY DEF Addr
<1>2. Sets(o, l, m.addr[2], "VALID")
  BY FilledSets
<1>3. l \in Line /\ Plain(l)
  BY <1>2 DEF Sets
<1>4. Sets(l, k, m.addr[2], "MODIFIED")
  BY <1>3, ModifiedSets
<1>5. Sets(o, k, m.addr[2], "MODIFIED")
  BY <1>2, <1>4 DEF Sets
<1>6. (IsModified(l) <=> IsModified(o)) /\ IsModified(k)
  BY <1>1, <1>2, <1>4 DEF Sets, IsModified
<1>7. DirtyFilled(o, m) = dirty /\ Change(o, l) = 0 /\ Change(o, k) = Change(l, k)
  BY <1>6 DEF DirtyFilled, Change
<1>8. DirtyWith(dirty, l) = dirty + Change(l, k)
  BY <1>6, DirtyWithIs
<1> QED BY <1>2, <1>5, <1>7, <1>8

\* The last answer makes the sector valid, or modified when an atomic waits for it.
LEMMA FillLastStep ==
  ASSUME Ready, NEW f \in fields, ~(f.left > 1), Fill(f), config' = config PROVE Step
<1> PICK a, m, w, s, o : a = f.mf.addr /\ m = f.mf /\ w = f.way /\ s = f.mf.addr[2] /\ o = line[f.way]
  OBVIOUS
<1> PICK l : l = Filled(o, m)
  OBVIOUS
<1> PICK k : k = Modified(l, m)
  OBVIOUS
<1>1. /\ line' = [line EXCEPT ![w] = IF HasAtomic(a) THEN k ELSE l]
      /\ dirty' = IF HasAtomic(a) THEN DirtyWith(DirtyFilled(o, m), l) ELSE DirtyFilled(o, m)
      /\ fields' = fields \ {f}
      /\ newest' = newest \cup {b \in {a} : \E r \in Range(mshr[a]) : Mutates(r)}
      /\ have' = IF o.tag = a[1] THEN [have EXCEPT ![w][s] = Bytes] ELSE have
  BY DEF Fill
<1>2. /\ w \in Way /\ a \in Addr /\ a[1] \in Blocks /\ s \in Sectors /\ m.addr = a /\ m.addr[2] = s
      /\ m.bytes \in Masks /\ a \in DOMAIN mshr
  <2>1. f.way \in Way /\ f.mf \in Msg /\ f.mf.addr \in DOMAIN mshr /\ f.mf.addr \in Addr
    BY ReadyIs DEF MissesOK, EntriesOK, FieldsIn
  <2>2. f.mf.bytes \in Masks
    BY <2>1 DEF Msg, Request, Fetch
  <2>3. f.mf.addr[1] \in Blocks /\ f.mf.addr[2] \in Sectors
    BY <2>1 DEF Addr
  <2> QED BY <2>1, <2>2, <2>3
<1>3. o \in Line /\ Plain(o) /\ have \in Haves /\ dirty \in Int
  BY <1>2, ReadyIs
<1>4. o.tag = a[1] /\ o.status[s] = "RESERVED"
  BY DEF Ready, Targeted, Waits
<1>5. /\ Sets(o, l, s, "VALID") /\ DirtyFilled(o, m) = dirty + Change(o, l)
      /\ Sets(o, k, s, "MODIFIED") /\ DirtyWith(DirtyFilled(o, m), l) = dirty + Change(o, k)
  BY <1>2, <1>3, <1>4, FillMakes
<1>6. ~IsInvalid(o)
  BY <1>2, <1>4 DEF IsInvalid
<1>7. /\ \A g \in fields' : g \in fields /\ ~(g.way = w /\ g.mf.addr[2] = s)
      /\ \A g \in fields : g \in fields' \/ (g.way = w /\ g.mf.addr[2] = s)
  <2>1. \A g \in fields : g.way = w /\ g.mf.addr[2] = s => g = f
    BY FetchesApart
  <2> QED BY <1>1, <2>1
<1>8. \A x \in {"VALID", "MODIFIED"} : SetsData(w, s, x)
  <2>1. have' = [have EXCEPT ![w][s] = Bytes]
    BY <1>1, <1>4
  <2>2. /\ have' \in Haves /\ have'[w][s] = Bytes
        /\ \A v \in Way : \A t \in Sectors : have'[v][t] = have[v][t] \/ (v = w /\ t = s)
    BY <1>2, <1>3, <2>1 DEF Haves
  <2> QED BY <2>2 DEF SetsData
<1>9. HasAtomic(a) => Atomics
  BY <1>2 DEF HasAtomic, Ready, Kinds
<1>10. \A x : SetsNewest(w, s, x)
  <2>1. ~Atomics => \A r \in Range(mshr[a]) : ~Mutates(r)
    <3>1. config.alloc # "FETCH_ON_WRITE"
      BY ReadyIs
    <3>2. ~Atomics => \A r \in Range(mshr[a]) : r.kind # "atomic"
      BY <1>2 DEF Ready, Kinds
    <3> QED BY <3>1, <3>2 DEF Mutates
  <2>2. ~Atomics => newest' = newest
    BY <1>1, <2>1
  <2> QED BY <1>4, <2>2 DEF SetsNewest
<1>11. ASSUME NEW n \in Line, NEW x \in {"VALID", "MODIFIED"}, line' = [line EXCEPT ![w] = n],
              Sets(o, n, s, x), dirty' = dirty + Change(o, n), x = "MODIFIED" => Atomics
       PROVE  Step
  <2>1. SetsSector(w, n, s, x)
    BY <1>2, <1>6, <1>7, <1>11 DEF SetsSector, SameFetch
  <2>2. SetsDirty(w, n, s, x)
    BY <1>11 DEF SetsDirty
  <2>3. SetsData(w, s, x) /\ SetsNewest(w, s, x) /\ x \in State
    BY <1>8, <1>10 DEF State
  <2> QED BY <1>2, <2>1, <2>2, <2>3 DEF Step, SomeSector
<1>12. l \in Line /\ k \in Line
  BY <1>5 DEF Sets
<1>13. CASE HasAtomic(a)
  <2>1. line' = [line EXCEPT ![w] = k] /\ dirty' = dirty + Change(o, k)
    BY <1>1, <1>5, <1>13
  <2>2. "MODIFIED" \in {"VALID", "MODIFIED"}
    OBVIOUS
  <2> QED BY <1>5, <1>9, <1>11, <1>12, <1>13, <2>1, <2>2
<1>14. CASE ~HasAtomic(a)
  <2>1. line' = [line EXCEPT ![w] = l] /\ dirty' = dirty + Change(o, l)
    BY <1>1, <1>5, <1>14
  <2>2. "VALID" \in {"VALID", "MODIFIED"} /\ "VALID" # "MODIFIED"
    OBVIOUS
  <2> QED BY <1>5, <1>11, <1>12, <2>1, <2>2
<1> QED BY <1>13, <1>14

\* Only a flush comes under these policies; it finds no line with a reserved sector to clear.
LEMMA InvalidateStep ==
  ASSUME Ready, NEW kind \in config.invalidates, Invalidate(kind), config' = config PROVE Step
<1>1. kind = "flush" /\ \E s : Sectors = {s}
  BY ReadyIs
<1> DEFINE hit == {w \in Way : kind = "invalidate" \/ IsModified(line[w])}
           cleared(w) == [line[w] EXCEPT !.status = EmptyLine.status]
           Without == [s \in Sectors |-> {}]
<1>2. /\ line' = [w \in Way |-> IF w \in hit THEN cleared(w) ELSE line[w]]
      /\ dirty' = 0 /\ newest' = {} /\ fields' = fields
      /\ have' = [w \in Way |-> IF w \in hit THEN Without ELSE have[w]]
  BY DEF Invalidate, misses
<1>3. \A w \in Way : w \in hit <=> IsModified(line[w])
  BY <1>1
<1>4. ASSUME NEW w \in Way
      PROVE  cleared(w).tag = line[w].tag /\ IsInvalid(cleared(w)) /\ Plain(cleared(w))
  <2>1. \A s \in Sectors : EmptyLine.status[s] = "INVALID"
    BY DEF EmptyLine
  <2>2. PICK l \in Line : l = line[w] /\ Plain(l)
    BY ReadyIs
  <2>3. PICK st : st = EmptyLine.status
    OBVIOUS
  <2>4. PICK n : n = [l EXCEPT !.status = st]
    OBVIOUS
  <2>5. n.tag = l.tag /\ n.status = st /\ n.readable = l.readable /\ n.modified_on_fill = l.modified_on_fill
    BY <2>4 DEF Line
  <2>6. cleared(w) = n
    BY <2>2, <2>3, <2>4
  <2> HIDE DEF cleared
  <2> QED BY <2>1, <2>2, <2>3, <2>5, <2>6 DEF IsInvalid, Plain
<1>5. \A w \in Way : IsModified(line[w]) => ~IsReserved(line[w])
  BY <1>1 DEF IsModified, IsReserved
<1>6. have' \in Haves
  <2>1. Without \in [Sectors -> SUBSET Bytes] /\ have \in Haves
    BY ReadyIs
  <2> HIDE DEF hit, Without
  <2> QED BY <1>2, <2>1 DEF Haves
<1>7. \A w \in Way :
       \/ line'[w] = line[w] /\ have'[w] = have[w] /\ ~IsModified(line[w])
       \/ IsInvalid(line'[w]) /\ Plain(line'[w]) /\ line'[w].tag = line[w].tag /\ ~IsReserved(line[w])
  <2> HIDE DEF hit, cleared, Without
  <2> SUFFICES ASSUME NEW w \in Way
               PROVE  \/ line'[w] = line[w] /\ have'[w] = have[w] /\ ~IsModified(line[w])
                      \/ IsInvalid(line'[w]) /\ Plain(line'[w]) /\ line'[w].tag = line[w].tag /\ ~IsReserved(line[w])
    OBVIOUS
  <2>1. CASE w \in hit
    <3>1. line'[w] = cleared(w) /\ ~IsReserved(line[w])
      BY <1>2, <1>3, <1>5, <2>1
    <3> QED BY <1>4, <3>1
  <2>2. CASE w \notin hit
    BY <1>2, <1>3, <2>2
  <2> QED BY <2>1, <2>2
<1>8. FetchesStay
  BY <1>2 DEF FetchesStay, SameFetch
<1> QED BY <1>2, <1>6, <1>7, <1>8 DEF Step, Clears

\* Every step of the cache is of one of the four shapes.
LEMMA NextStep ==
  ASSUME Ready, [Next]_vars PROVE Step
<1>1. CASE Access
  BY <1>1, ReadHitStep, ReadMissStep, WriteHitStep, WriteMissStep DEF Access
<1>2. ASSUME NEW f \in fields, Fill(f) PROVE Step
  <2>1. config' = config
    BY <1>2 DEF Fill
  <2> QED BY <1>2, <2>1, FillPartStep, FillLastStep
<1>3. ASSUME NEW kind \in config.invalidates, Invalidate(kind) PROVE Step
  <2>1. config' = config
    BY <1>3 DEF Invalidate
  <2> QED BY <1>3, <2>1, InvalidateStep
<1>4. ASSUME UNCHANGED <<config, line, dirty, newest, have, fields>> PROVE Step
  BY <1>4 DEF Step, Untouched, FetchesStay, SameFetch
<1>5. CASE Arrive \/ Cycle \/ NextAccess \/ (\E m \in below : WriteDone(m)) \/ UNCHANGED vars
  BY <1>4, <1>5 DEF Arrive, Cycle, NextAccess, WriteDone, vars, tags, misses, ghosts
<1> QED BY <1>1, <1>2, <1>3, <1>5 DEF Next

\* What an access puts into the MSHR table: the request, or a fetch for it.
LEMMA AccessSends ==
  ASSUME Access
  PROVE  mshr' = mshr \/ \E m, q, p : (m = head \/ m \in {FetchFor(None), FetchFor(head.id)}) /\ SendRead(m, q, p)
<1>1. CASE ReadHit
  BY <1>1 DEF ReadHit, misses
<1>2. CASE ReadMiss
  BY <1>2 DEF ReadMiss
<1>3. CASE WriteHit
  BY <1>3 DEF WriteHit, WriteHitThrough, WriteHitEvict, WriteHitBack, misses
<1>4. CASE WriteMiss
  <2>1. PICK p : WriteMissNoAllocate \/ WriteMissNaive(p) \/ WriteMissWhole(p) \/ WriteMissFetch(p) \/ WriteMissLazy(p)
    BY <1>4 DEF WriteMiss
  <2>2. CASE WriteMissNoAllocate \/ WriteMissWhole(p) \/ WriteMissLazy(p)
    BY <2>2 DEF WriteMissNoAllocate, WriteMissWhole, WriteMissLazy
  <2>3. CASE WriteMissNaive(p)
    BY <2>3 DEF WriteMissNaive
  <2>4. CASE WriteMissFetch(p)
    BY <2>4 DEF WriteMissFetch
  <2> QED BY <2>1, <2>2, <2>3, <2>4
<1> QED BY <1>1, <1>2, <1>3, <1>4 DEF Access

LEMMA KindsStep ==
  ASSUME Cached, Kinds, [Next]_vars PROVE Kinds'
<1>0. config' = config /\ (Atomics' <=> Atomics)
  <2>1. config' = config
    BY DEF Next, Arrive, Access, Cycle, NextAccess, Fill, WriteDone, Invalidate, vars
  <2> QED BY <2>1 DEF Atomics
<1>1. TagsOK /\ MissesOK
  BY DEF Cached
<1>2. ASSUME head' = head \/ head' = None, mshr' = mshr PROVE Kinds'
  BY <1>0, <1>2 DEF Kinds
<1>3. CASE Access
  <2>1. head # None /\ (head' = head \/ head' = None)
    <3>1. Taken
      BY <1>3, AccessTaken DEF Cached
    <3> QED BY <3>1 DEF Taken, Keeps, Sends, Fetches, SendsAndFetches, Asks, Answer, Wait
  <2>2. CASE mshr' = mshr
    BY <1>2, <2>1, <2>2
  <2>3. ASSUME NEW m, NEW q, NEW p, m = head \/ m \in {FetchFor(None), FetchFor(head.id)}, SendRead(m, q, p)
        PROVE  Kinds'
    <3>1. m \in Msg /\ (m.kind = "atomic" => Atomics)
      <4>1. AtHead
        BY <1>0, <1>1, <2>1 DEF AtHead
      <4>2. head \in Msg /\ FetchFor(None) \in Msg /\ FetchFor(head.id) \in Msg
            /\ \A id : FetchFor(id).kind = "fetch"
        BY <4>1, HeadIs
      <4> QED BY <2>1, <2>3, <4>2 DEF Kinds
    <3>2. PICK a : a = m.addr
      OBVIOUS
    <3>3. \A b \in DOMAIN mshr' : b # a => b \in DOMAIN mshr /\ mshr'[b] = mshr[b]
      BY <2>3, <3>2 DEF SendRead
    <3>4. a \in DOMAIN mshr' => \A r \in Range(mshr'[a]) : r.kind = "atomic" => Atomics
      <4>1. CASE a \in DOMAIN mshr
        <5>1. PICK t \in Seq(Msg) : t = mshr[a]
          BY <1>1, <4>1 DEF MissesOK
        <5>2. mshr'[a] = Append(t, m)
          BY <2>3, <3>2, <4>1, <5>1 DEF SendRead
        <5>3. Range(mshr'[a]) = Range(t) \cup {m}
          BY <3>1, <5>2, AtEnd
        <5> QED BY <3>1, <4>1, <5>1, <5>3 DEF Kinds
      <4>2. CASE a \notin DOMAIN mshr
        <5>1. mshr'[a] = <<m>>
          BY <2>3, <3>2, <4>2 DEF SendRead
        <5>2. Range(<<m>>) = {m}
          BY DEF Range
        <5> QED BY <3>1, <5>1, <5>2
      <4> QED BY <4>1, <4>2
    <3>5. \A b \in DOMAIN mshr' : \A r \in Range(mshr'[b]) : r.kind = "atomic" => Atomics
      BY <3>3, <3>4 DEF Kinds
    <3> QED BY <1>0, <2>1, <3>5 DEF Kinds
  <2> QED BY <1>3, <2>2, <2>3, AccessSends
<1>4. CASE NextAccess
  <2>1. PICK a : a = Head(response)
    OBVIOUS
  <2>2. /\ IF Len(mshr[a]) > 1 THEN mshr' = [mshr EXCEPT ![a] = Tail(@)]
           ELSE mshr' = [b \in (DOMAIN mshr) \ {a} |-> mshr[b]]
        /\ head' = head
    BY <1>4, <2>1 DEF NextAccess
  <2>3. ASSUME NEW b \in DOMAIN mshr' PROVE b \in DOMAIN mshr /\ Range(mshr'[b]) \subseteq Range(mshr[b])
    <3>1. b \in DOMAIN mshr
      BY <2>2
    <3>2. PICK t \in Seq(Msg) : t = mshr[b] /\ t # << >>
      BY <1>1, <3>1 DEF MissesOK
    <3>3. mshr'[b] = t \/ mshr'[b] = Tail(t)
      BY <2>2, <3>1, <3>2
    <3>4. Range(Tail(t)) \subseteq Range(t)
      <4>1. \A i \in DOMAIN Tail(t) : Tail(t)[i] \in Range(t)
        BY <3>2, Positions
      <4> QED BY <4>1 DEF Range
    <3> QED BY <3>1, <3>2, <3>3, <3>4
  <2> QED BY <1>0, <2>2, <2>3 DEF Kinds
<1>5. CASE Arrive
  <2>1. head' # None => head'.kind \in config.ops
    BY <1>5 DEF Arrive
  <2>2. mshr' = mshr
    BY <1>5 DEF Arrive, misses
  <2> QED BY <1>0, <2>1, <2>2 DEF Kinds, Atomics
<1>6. CASE Cycle \/ (\E f \in fields : Fill(f)) \/ (\E m \in below : WriteDone(m))
           \/ (\E kind \in config.invalidates : Invalidate(kind)) \/ UNCHANGED vars
  <2>1. head' = head /\ mshr' = mshr
    <3>1. \A f \in fields : Fill(f) => head' = head /\ mshr' = mshr
      BY DEF Fill, tags
    <3> QED BY <1>6, <3>1 DEF Cycle, WriteDone, Invalidate, vars, misses
  <2> QED BY <1>2, <2>1
<1> QED BY <1>3, <1>4, <1>5, <1>6 DEF Next

-------------------------------------------------------------------------------
(* The theorems about the data. *)

\* What holds under the policies that leave a reserved sector reserved until its fill.
Kept == ReservedUntilFill => Targeted /\ DataHere

LEMMA InitKept ==
  ASSUME KeptWritesAnswered, Init
  PROVE  /\ Cached /\ Kinds /\ Targeted /\ DataHere /\ DirtyRight /\ NewestKept /\ ReservedAwaited
<1>1. Cached
  BY InitCached
<1>2. /\ line = [w \in Way |-> EmptyLine] /\ dirty = 0 /\ fields = {} /\ newest = {} /\ head = None
      /\ mshr = << >> /\ have = [w \in Way |-> [s \in Sectors |-> {}]]
  BY DEF Init
<1>3. EmptyLine.status = [s \in Sectors |-> "INVALID"] /\ EmptyLine.readable = [s \in Sectors |-> TRUE]
      /\ EmptyLine.modified_on_fill = [s \in Sectors |-> FALSE]
  BY DEF EmptyLine
<1>4. \A w \in Way : IsInvalid(line[w]) /\ Plain(line[w]) /\ ~IsModified(line[w])
  BY <1>2, <1>3 DEF IsInvalid, Plain, IsModified
<1>5. Targeted
  BY <1>2, <1>4 DEF Targeted, OneLine
<1>6. DataHere
  BY <1>2, <1>4 DEF DataHere, Haves, IsInvalid
<1>7. DirtyRight
  <2>1. ModifiedWays = {}
    BY <1>4 DEF ModifiedWays
  <2>2. Cardinality(ModifiedWays) = 0
    BY <2>1, FS_EmptySet
  <2> QED BY <1>2, <1>4, <2>2 DEF DirtyRight
<1>8. NewestKept
  BY <1>2 DEF NewestKept
<1>9. ReservedAwaited
  BY <1>4 DEF ReservedAwaited, IsInvalid
<1>10. Kinds
  <2>1. DOMAIN mshr = {}
    BY <1>2
  <2> QED BY <1>2, <2>1 DEF Kinds
<1> QED BY <1>1, <1>5, <1>6, <1>7, <1>8, <1>9, <1>10

\* The invariant that the theorems below share.
Sound == Cached /\ Kinds /\ Kept

LEMMA SoundInit ==
  ASSUME KeptWritesAnswered, Init PROVE Sound
BY InitKept DEF Sound, Kept

LEMMA SoundNext ==
  ASSUME Sound, [Next]_vars
  PROVE  /\ Sound' /\ config' = config /\ (ReservedUntilFill' <=> ReservedUntilFill)
         /\ ReservedUntilFill => Step /\ TagsOK /\ TagsOK' /\ FieldsIn /\ FieldsIn'
<1>1. Cached' /\ Kinds'
  BY NextCached, KindsStep DEF Sound
<1>2. config' = config
  BY DEF Next, Arrive, Access, Cycle, NextAccess, Fill, WriteDone, Invalidate, vars
<1>3. ReservedUntilFill' <=> ReservedUntilFill
  BY <1>2 DEF ReservedUntilFill
<1>4. ASSUME ReservedUntilFill
      PROVE  Step /\ TagsOK /\ TagsOK' /\ FieldsIn /\ FieldsIn' /\ Targeted' /\ DataHere'
  <2>1. Ready /\ Targeted /\ DataHere
    BY <1>4 DEF Ready, Sound, Kept
  <2>2. Step
    BY <2>1, NextStep
  <2>3. TagsOK /\ TagsOK' /\ FieldsIn
    BY <1>1, <2>1, ReadyIs DEF Cached
  <2>4. FieldsIn'
    <3>1. \A f \in fields' : f.way \in Way /\ f.mf \in Msg
      BY <1>1 DEF Cached, MissesOK
    <3>2. \A m \in Msg : m.addr \in Addr
      BY DEF Msg, Request, Fetch
    <3> QED BY <3>1, <3>2 DEF FieldsIn
  <2>5. Targeted'
    BY <2>1, <2>2, <2>3, <2>4, TargetedStep
  <2>6. DataHere'
    BY <2>1, <2>2, <2>3, DataStep
  <2> QED BY <2>2, <2>3, <2>4, <2>5, <2>6
<1> QED BY <1>1, <1>2, <1>3, <1>4 DEF Sound, Kept

\* The answer to a fetch finds its sector reserved.
THEOREM FillsFindLines == KeptWritesAnswered /\ Spec => []FillFindsItsLine
<1>1. KeptWritesAnswered /\ Init => Sound
  BY SoundInit
<1>2. Sound /\ [Next]_vars => Sound'
  BY SoundNext
<1>3. Sound => FillFindsItsLine
  BY DEF Sound, Kept, Targeted, Waits, FillFindsItsLine
<1> QED BY <1>1, <1>2, <1>3, PTL DEF Spec

\* Atomics are performed in the L2, which is never write-evict: the line stays.
AtomicsNotEvicted ==
  \A c \in Configs : "atomic" \in c.ops => c.write \in {"WRITE_BACK", "WRITE_THROUGH"}

\* m_dirty is the number of modified lines, through accesses, evictions, fills and flushes.
THEOREM DirtyCounted == KeptWritesAnswered /\ AtomicsNotEvicted /\ Spec => []DirtyCount
<1> DEFINE I == AtomicsNotEvicted /\ Sound /\ (ReservedUntilFill => DirtyRight)
<1>1. AtomicsNotEvicted /\ KeptWritesAnswered /\ Init => I
  BY SoundInit, InitKept
<1>2. I /\ [Next]_vars => I'
  <2> SUFFICES ASSUME I, [Next]_vars PROVE I'
    OBVIOUS
  <2>1. Sound /\ Sound' /\ (ReservedUntilFill' <=> ReservedUntilFill)
    BY SoundNext
  <2>2. ASSUME ReservedUntilFill PROVE DirtyRight'
    <3>1. TagsOK /\ Step /\ DirtyRight
      BY <2>2, SoundNext
    <3>2. Atomics => \A b : MayModify(b)
      BY <3>1 DEF TagsOK, AtomicsNotEvicted, Atomics, MayModify
    <3> QED BY <3>1, <3>2, DirtyStep
  <2> QED BY <2>1, <2>2
<1>3. I => DirtyCount
  BY DEF DirtyRight, ModifiedWays, DirtyCount
<1> HIDE DEF I
<1> QED BY <1>1, <1>2, <1>3, PTL DEF Spec

\* The cache meets no atomics.  One that joins an MSHR entry whose line is gone, while the entry
\* is being answered, would be performed on no line.
NoAtomics == \A c \in Configs : "atomic" \notin c.ops

\* What was written here and not yet below stays in a modified sector until it is sent down.
THEOREM WritesKept == KeptWritesAnswered /\ NoAtomics /\ Spec => []NoLostWrite
<1> DEFINE I == NoAtomics /\ Sound /\ (ReservedUntilFill => DirtyRight /\ NewestKept)
<1>1. NoAtomics /\ KeptWritesAnswered /\ Init => I
  BY SoundInit, InitKept
<1>2. I /\ [Next]_vars => I'
  <2> SUFFICES ASSUME I, [Next]_vars PROVE I'
    OBVIOUS
  <2>1. Sound /\ Sound' /\ (ReservedUntilFill' <=> ReservedUntilFill)
    BY SoundNext
  <2>2. ASSUME ReservedUntilFill PROVE DirtyRight' /\ NewestKept'
    <3>1. TagsOK /\ Step /\ DirtyRight /\ NewestKept
      BY <2>2, SoundNext
    <3>2. ~Atomics
      BY <3>1 DEF TagsOK, NoAtomics, Atomics
    <3> QED BY <3>1, <3>2, DirtyStep, NewestStep
  <2> QED BY <2>1, <2>2
<1>3. I => NoLostWrite
  BY DEF NewestKept, NoLostWrite
<1> HIDE DEF I
<1> QED BY <1>1, <1>2, <1>3, PTL DEF Spec

\* Every configuration leaves a reserved sector reserved until its fill.
FillsAreKept ==
  \A c \in Configs :
    /\ c.alloc \in {"NO_WRITE_ALLOCATE", "WRITE_ALLOCATE"}
    /\ c.invalidates \subseteq IF Cardinality(Sectors) = 1 THEN {"flush"} ELSE {}

LEMMA FillsAreKeptIs == FillsAreKept => KeptWritesAnswered
BY DEF FillsAreKept, KeptWritesAnswered

LEMMA KeptIs ==
  ASSUME FillsAreKept, Sound PROVE ReservedUntilFill /\ Targeted /\ DataHere
<1>1. config \in Configs
  BY DEF Sound, Cached, TagsOK
<1>2. ReservedUntilFill
  BY <1>1 DEF FillsAreKept, ReservedUntilFill
<1> QED BY <1>2 DEF Sound, Kept

\* A read hits only sectors whose bytes are all there.
THEOREM HitsHaveData == FillsAreKept /\ Spec => []ReadableHasData
<1> DEFINE I == FillsAreKept /\ Sound
<1>1. FillsAreKept /\ Init => I
  BY SoundInit, FillsAreKeptIs
<1>2. I /\ [Next]_vars => I'
  BY SoundNext
<1>3. I => ReadableHasData
  BY KeptIs DEF DataHere, ReadableHasData
<1> HIDE DEF I
<1> QED BY <1>1, <1>2, <1>3, PTL DEF Spec

\* With MSHR entries of one request, no sector stays reserved without a fetch that frees it.
THEOREM ReservedFetched ==
  FillsAreKept /\ MaxMerged <= 1 /\ Spec => []ReservedAwaited
<1> DEFINE I == FillsAreKept /\ MaxMerged <= 1 /\ Sound /\ ReservedAwaited
<1>1. FillsAreKept /\ MaxMerged <= 1 /\ Init => I
  BY SoundInit, InitKept, FillsAreKeptIs
<1>2. I /\ [Next]_vars => I'
  <2> SUFFICES ASSUME I, [Next]_vars PROVE I'
    OBVIOUS
  <2>1. Sound' /\ TagsOK /\ TagsOK' /\ FieldsIn /\ Step
    BY KeptIs, SoundNext
  <2> QED BY <2>1, AwaitedStep
<1>3. I => ReservedAwaited
  OBVIOUS
<1> HIDE DEF I
<1> QED BY <1>1, <1>2, <1>3, PTL DEF Spec

===============================================================================
