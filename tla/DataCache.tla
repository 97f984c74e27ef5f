------------------------------- MODULE DataCache -------------------------------
(***************************************************************************)
(* A data cache of GPGPU-Sim (gpu-cache.h, gpu-cache.cc): one set of a     *)
(* sector cache that allocates on a miss, its miss status registers (MSHR) *)
(* and its miss queue, under every write policy.  A cache of whole lines   *)
(* (type NORMAL) is the instance with one sector.                          *)
(*                                                                         *)
(* Requests come in order from the queue in front of the cache             *)
(* (memory_sub_partition::cache_cycle in l2cache.cc): the request at the   *)
(* head is tried until the cache takes it.  Memory answers in any order.   *)
(***************************************************************************)
EXTENDS Integers, Sequences, FiniteSets, FiniteSetsExt, Functions, Folding

CONSTANTS
  Blocks,         \* block addresses that map to the set
  Sectors,        \* the sectors of a line
  Masks,          \* the byte masks of requests, each a set of bytes of a sector
  Ways,           \* m_assoc
  MshrEntries,    \* m_mshr_entries
  MaxMerged,      \* m_mshr_max_merge
  MissQueueSize,  \* m_miss_queue_size
  SubReads,       \* answers a fetch waits for: 1, or more with SECTOR_ASSOC
  Configs,        \* the configurations explored
  Ids,            \* the requests that can be outstanding at a time
  None            \* no request, or no tag

\* cache_config: the policies.  And what the cache meets: the blocks of local memory, the
\* kinds of requests (the L1 gets no atomics), their byte masks, and the kinds of
\* invalidation, a flush between kernels (L2) or memory barriers (L1).
Config ==
  [write : {"WRITE_BACK", "WRITE_THROUGH", "WRITE_EVICT", "LOCAL_WB_GLOBAL_WT"},
   alloc : {"NO_WRITE_ALLOCATE", "WRITE_ALLOCATE", "FETCH_ON_WRITE", "LAZY_FETCH_ON_READ"},
   replacement : {"LRU", "FIFO"},
   wr_percent : 0 .. 100,
   local : SUBSET Blocks,
   ops : SUBSET {"read", "write", "atomic"},
   masks : SUBSET Masks,
   invalidates : SUBSET {"flush", "invalidate"}]

ASSUME CacheAssumption ==
  /\ Ways \in Nat \ {0} /\ MshrEntries \in Nat /\ MaxMerged \in Nat
  /\ MissQueueSize \in Nat /\ SubReads \in Nat \ {0}
  /\ Configs \subseteq Config /\ IsFiniteSet(Sectors)
  /\ None \notin Blocks \cup Ids

VARIABLES
  config,    \* m_config: one of Configs, fixed
  line,      \* m_lines: the ways of the set
  order,     \* the ways by last access time (LRU) or allocation time (FIFO), oldest first
  dirty,     \* m_dirty
  used,      \* is_used: accessed since it was last flushed or invalidated
  mshr,      \* m_mshrs.m_data: sector address -> the requests that wait for it
  response,  \* m_mshrs.m_current_response
  queue,     \* m_miss_queue
  fields,    \* m_extra_mf_fields: the fetches on their way and the way each one fills
  below,     \* the fetches and writes in the memory below
  head,      \* the request at the head of the queue in front of the cache
  waiting,   \* the requests the cache took and has not answered
  newest,    \* sectors written here and not (yet) sent to the memory below
  have       \* the bytes of each sector of each way that really are in the cache

tags == <<line, order, dirty, used>>
misses == <<mshr, response, queue, fields, below>>
ghosts == <<newest, have>>
vars == <<config, tags, misses, head, waiting, ghosts>>

Way == 1 .. Ways
Addr == Blocks \X Sectors        \* mshr_addr: the address of a sector
Bytes == UNION Masks
State == {"INVALID", "RESERVED", "VALID", "MODIFIED"}

\* mem_fetch of a request, of the fetch of a write-allocate, and of a write-back.
Request == [id : Ids, kind : {"read", "write", "atomic"}, addr : Addr, bytes : Masks]
Fetch == [id : Ids \cup {None}, kind : {"fetch"}, addr : Addr, bytes : Masks]
WriteBack == [kind : {"writeback"}, block : Blocks, sectors : SUBSET Sectors]

Line == [tag : Blocks \cup {None}, status : [Sectors -> State],
         modified_on_fill : [Sectors -> BOOLEAN], readable_on_fill : [Sectors -> BOOLEAN],
         readable : [Sectors -> BOOLEAN], byte_mask_on_fill : BOOLEAN,
         byte_mask : [Sectors -> SUBSET Bytes]]

IsWrite(m) == m.kind = "write"
IsModified(l) == \E s \in Sectors : l.status[s] = "MODIFIED"
IsReserved(l) == \E s \in Sectors : l.status[s] = "RESERVED"
IsInvalid(l) == \A s \in Sectors : l.status[s] = "INVALID"

\* sector_cache_block::init
EmptyLine == [tag |-> None, status |-> [s \in Sectors |-> "INVALID"],
              modified_on_fill |-> [s \in Sectors |-> FALSE],
              readable_on_fill |-> [s \in Sectors |-> FALSE],
              readable |-> [s \in Sectors |-> TRUE], byte_mask_on_fill |-> FALSE,
              byte_mask |-> [s \in Sectors |-> {}]]

Init ==
  /\ config \in Configs
  /\ line = [w \in Way |-> EmptyLine]
  /\ order = [w \in Way |-> w]
  /\ dirty = 0 /\ used = FALSE
  /\ mshr = << >> /\ response = << >> /\ queue = << >>
  /\ fields = {} /\ below = {}
  /\ head = None /\ waiting = {}
  /\ newest = {} /\ have = [w \in Way |-> [s \in Sectors |-> {}]]

-----------------------------------------------------------------------------
(* tag_array *)

Replaceable_Reserved ==
  {w \in Way : IsModified(line[w]) => dirty * 100 >= config.wr_percent * Ways}

\* probe: the lines it may replace.
Replaceable ==
  {w \in Way : /\ ~IsReserved(line[w])
               /\ IsModified(line[w]) => dirty * 100 >= config.wr_percent * Ways}

\* probe: an invalid line if there is one (the last), or the oldest.
Victim ==
  LET invalid == {w \in Replaceable : IsInvalid(line[w])} IN
  IF invalid # {} THEN Max(invalid)
  ELSE Head(Only(order, Replaceable))

\* tag_array::probe
Probe(a, wr) ==
  LET match == {w \in Way : line[w].tag = a[1] /\ ~IsInvalid(line[w])}
      w == Min(match)
      st == line[w].status[a[2]]
  IN CASE match # {} ->
            [way |-> w,
             status |-> IF st = "RESERVED" THEN "HIT_RESERVED"
                        ELSE IF \/ st = "VALID"
                                \/ st = "MODIFIED" /\ (wr \/ line[w].readable[a[2]])
                        THEN "HIT" ELSE "SECTOR_MISS"]
       [] match = {} /\ Replaceable = {} -> [way |-> 0, status |-> "RESERVATION_FAIL"]
       [] OTHER -> [way |-> Victim, status |-> "MISS"]

Accessed_KeepsSectors(a, p) ==
  LET l == line[p.way]  s == a[2] IN
  IF p.status \in {"MISS", "SECTOR_MISS"} THEN [l EXCEPT !.tag = a[1], !.status[s] = "RESERVED"]
  ELSE l

\* tag_array::access, for the line p.way of probe p: allocate_line, allocate_sector.
Accessed(a, p) ==
  LET l == line[p.way]  s == a[2] IN
  CASE p.status = "MISS" ->
         [EmptyLine EXCEPT !.tag = a[1], !.status[s] = "RESERVED"]
    [] p.status = "SECTOR_MISS" ->
         [l EXCEPT !.status[s] = "RESERVED", !.modified_on_fill[s] = l.status[s] = "MODIFIED",
                   !.readable_on_fill[s] = FALSE, !.readable[s] = TRUE]
    [] OTHER -> l

DirtyAfter_Keeps(a, p) == dirty

\* tag_array::access: m_dirty after it.
DirtyAfter(a, p) ==
  IF IsModified(line[p.way]) /\ ~IsModified(Accessed(a, p)) THEN dirty - 1 ELSE dirty

\* set_last_access_time, or the allocation time of a line.
OrderAfter(p) ==
  IF config.replacement = "LRU" \/ p.status = "MISS"
  THEN Append(Only(order, Way \ {p.way}), p.way) ELSE order

WriteBacks_None(p) == << >>

\* What the block evicted by an access sends to memory.
WriteBacks(p) ==
  LET l == line[p.way] IN
  IF p.status = "MISS" /\ IsModified(l) /\ config.write # "WRITE_THROUGH"
  THEN <<[kind |-> "writeback", block |-> l.tag,
          sectors |-> {s \in Sectors : l.status[s] = "MODIFIED"}]>>
  ELSE << >>

\* Setting status MODIFIED and the byte mask of a sector (inc_dirty is in DirtyWith).
Modified(l, m) ==
  LET s == m.addr[2] IN
  [l EXCEPT !.status[s] = "MODIFIED", !.byte_mask[s] = @ \cup m.bytes]

\* update_m_readable
Readable(l, s) == IF l.byte_mask[s] = Bytes THEN [l EXCEPT !.readable[s] = TRUE] ELSE l

\* inc_dirty when the line before it, l, is not modified.
DirtyWith(d, l) == IF IsModified(l) THEN d ELSE d + 1

-----------------------------------------------------------------------------
(* The miss status registers and the miss queue *)

\* miss_queue_full
QueueFull(n) == Len(queue) + n >= MissQueueSize

Merges_OneMore(a) == a \in DOMAIN mshr /\ Len(mshr[a]) <= MaxMerged

\* mshr_table::probe and full: a request for a joins an entry, or gets one.
Merges(a) == a \in DOMAIN mshr /\ Len(mshr[a]) < MaxMerged
NewEntry(a) == a \notin DOMAIN mshr /\ Cardinality(DOMAIN mshr) < MshrEntries

\* mshr_table::is_read_after_write_pending: a write and, later in the list, a read.
ReadAfterWritePending(a) ==
  a \in DOMAIN mshr /\ \E i, j \in DOMAIN mshr[a] : i < j /\ mshr[a][i].kind = "write"
                                                          /\ mshr[a][j].kind # "write"

\* send_read_request takes the request when the miss queue is q.
CanSendRead(a, q) == Merges(a) \/ (NewEntry(a) /\ Len(q) < MissQueueSize)

\* send_read_request: mshr_table::add, m_extra_mf_fields and the miss queue.
SendRead(m, q, p) ==
  LET a == m.addr IN
  /\ mshr' = IF a \in DOMAIN mshr THEN [mshr EXCEPT ![a] = Append(@, m)]
             ELSE [b \in (DOMAIN mshr) \cup {a} |-> IF b = a THEN <<m>> ELSE mshr[b]]
  /\ IF a \in DOMAIN mshr
     THEN queue' = q \o WriteBacks(p) /\ UNCHANGED fields
     ELSE /\ queue' = Append(q, m) \o WriteBacks(p)
          /\ fields' = fields \cup {[mf |-> m, way |-> p.way, left |-> SubReads]}
  /\ UNCHANGED <<response, below>>

\* The tag array after an access that makes l of the line it finds, with d dirty lines.
SetTags(p, l, d) ==
  /\ line' = [line EXCEPT ![p.way] = l]
  /\ dirty' = d
  /\ order' = OrderAfter(p)
  /\ used' = TRUE

\* What is written in the cache only, and what an eviction sends down.
SentDown(p) == {<<line[p.way].tag, s>> : s \in UNION {b.sectors : b \in Range(WriteBacks(p))}}
Written(m, p) == newest' = (newest \ SentDown(p)) \cup {m.addr}

\* The request, or the write it fetches for, changes the sector when the data comes.
Mutates(m) == m.kind = "atomic" \/ (m.kind # "read" /\ config.alloc = "FETCH_ON_WRITE")

\* A request that joins an entry that is being answered has its data at once.
Fetched(m, p) ==
  newest' = (newest \ SentDown(p))
            \cup {a \in {m.addr} : Mutates(m) /\ a \in Range(response)}

Has(p, m, bs) ==
  have' = [have EXCEPT ![p.way] =
             LET old == IF p.status = "MISS" THEN [s \in Sectors |-> {}] ELSE @
             IN [old EXCEPT ![m.addr[2]] = @ \cup bs]]

\* What the caller does with the answer (memory_sub_partition::cache_cycle).
Answer == head' = None /\ UNCHANGED waiting
Wait == head' = None /\ waiting' = waiting \cup {head.id}
AnswerIfBack == IF config.write = "WRITE_BACK" THEN Answer ELSE Wait

-----------------------------------------------------------------------------
(* data_cache *)

Probed == Probe(head.addr, IsWrite(head))

\* rd_hit_base
ReadHit ==
  /\ head # None /\ ~IsWrite(head) /\ Probed.status = "HIT"
  /\ LET p == Probed  l == line[p.way] IN
     IF head.kind = "atomic"
     THEN SetTags(p, Modified(l, head), DirtyWith(dirty, l)) /\ Written(head, p)
     ELSE SetTags(p, l, dirty) /\ UNCHANGED newest
  /\ Answer
  /\ UNCHANGED <<misses, have>>

\* rd_miss_base
ReadMiss ==
  /\ head # None /\ ~IsWrite(head)
  /\ LET p == Probed IN
     /\ p.status \notin {"HIT", "RESERVATION_FAIL"}
     /\ ~QueueFull(1) /\ CanSendRead(head.addr, queue)
     /\ SetTags(p, Accessed(head.addr, p), DirtyAfter(head.addr, p))
     /\ SendRead(head, queue, p)
     /\ Fetched(head, p) /\ Has(p, head, {})
  /\ Wait

\* wr_hit_wb
WriteHitBack(p) ==
  LET l == line[p.way] IN
  /\ SetTags(p, Readable(Modified(l, head), head.addr[2]), DirtyWith(dirty, l))
  /\ Written(head, p) /\ Has(p, head, head.bytes)
  /\ UNCHANGED misses
  /\ Answer

\* wr_hit_wt
WriteHitThrough(p) ==
  LET l == line[p.way] IN
  /\ ~QueueFull(0)
  /\ SetTags(p, Readable(Modified(l, head), head.addr[2]), DirtyWith(dirty, l))
  /\ queue' = Append(queue, head)
  /\ Has(p, head, head.bytes)
  /\ UNCHANGED <<mshr, response, fields, below, newest>>
  /\ Wait

\* wr_hit_we
WriteHitEvict(p) ==
  /\ ~QueueFull(0)
  /\ line' = [line EXCEPT ![p.way].status[head.addr[2]] = "INVALID"]
  /\ queue' = Append(queue, head)
  /\ have' = [have EXCEPT ![p.way][head.addr[2]] = {}]
  /\ UNCHANGED <<order, dirty, used, mshr, response, fields, below, newest>>
  /\ Wait

\* m_wr_hit, as data_cache::init chooses it; wr_hit_global_we_local_wb.
WriteHit ==
  /\ head # None /\ IsWrite(head) /\ Probed.status = "HIT"
  /\ CASE config.write = "WRITE_THROUGH" -> WriteHitThrough(Probed)
       [] \/ config.write = "WRITE_EVICT"
          \/ config.write = "LOCAL_WB_GLOBAL_WT" /\ head.addr[1] \notin config.local ->
            WriteHitEvict(Probed)
       [] OTHER -> WriteHitBack(Probed)

\* wr_miss_no_wa
WriteMissNoAllocate ==
  /\ ~QueueFull(0)
  /\ queue' = Append(queue, head)
  /\ UNCHANGED <<tags, mshr, response, fields, below, ghosts>>
  /\ Wait

\* The fetch a write-allocate makes for the write m.
FetchFor(id) == [id |-> id, kind |-> "fetch", addr |-> head.addr, bytes |-> head.bytes]

WriteMissNaive_Room(p, n, id) ==
  LET q == Append(queue, head) IN
  /\ ~QueueFull(n) /\ CanSendRead(head.addr, queue)
  /\ IF CanSendRead(head.addr, q)
     THEN /\ SetTags(p, Accessed(head.addr, p), DirtyAfter(head.addr, p))
          /\ SendRead(FetchFor(id), q, p)
          /\ Fetched(head, p) /\ Has(p, head, {})
          /\ Wait
     ELSE queue' = q /\ UNCHANGED <<tags, mshr, response, fields, below, head, waiting, ghosts>>
WriteMissNaive_RoomForOne(p) == WriteMissNaive_Room(p, 0, None)

\* wr_miss_wa_naive: the write and a fetch of its sector are both sent.
WriteMissNaive(p) ==
  LET q == Append(queue, head) IN
  /\ ~QueueFull(2) /\ CanSendRead(head.addr, queue)
  /\ IF CanSendRead(head.addr, q)
     THEN /\ SetTags(p, Accessed(head.addr, p), DirtyAfter(head.addr, p))
          /\ SendRead(FetchFor(None), q, p)
          /\ Fetched(head, p) /\ Has(p, head, {})
          /\ Wait
     ELSE queue' = q /\ UNCHANGED <<tags, mshr, response, fields, below, head, waiting, ghosts>>

\* wr_miss_wa_fetch_on_write, a write of all bytes of the sector.
WriteMissWhole(p) ==
  LET l == Accessed(head.addr, p) IN
  /\ ~QueueFull(0)
  /\ SetTags(p, Modified(l, head), DirtyWith(DirtyAfter(head.addr, p), l))
  /\ queue' = queue \o WriteBacks(p)
  /\ Written(head, p) /\ Has(p, head, head.bytes)
  /\ UNCHANGED <<mshr, response, fields, below>>
  /\ AnswerIfBack

\* wr_miss_wa_fetch_on_write, a partial write: answered when the fetch is.
WriteMissFetch(p) ==
  LET s == head.addr[2] IN
  /\ ~QueueFull(1) /\ CanSendRead(head.addr, queue) /\ ~ReadAfterWritePending(head.addr)
  /\ SetTags(p, [Accessed(head.addr, p) EXCEPT !.modified_on_fill[s] = TRUE,
                                               !.byte_mask_on_fill = TRUE],
             DirtyAfter(head.addr, p))
  /\ SendRead(FetchFor(head.id), queue, p)
  /\ Fetched(head, p) /\ Has(p, head, {})
  /\ Wait

WriteMissLazy_NoReply(p) ==
  /\ ~QueueFull(0)
  /\ SetTags(p, Modified(Accessed(head.addr, p), head), DirtyAfter(head.addr, p))
  /\ queue' = queue \o WriteBacks(p)
  /\ Written(head, p) /\ Has(p, head, head.bytes)
  /\ UNCHANGED <<mshr, response, fields, below>>
  /\ Wait

\* wr_miss_wa_lazy_fetch_on_read
WriteMissLazy(p) ==
  LET s == head.addr[2]
      whole == head.bytes = Bytes
      reserved == p.status = "HIT_RESERVED"
      l == Accessed(head.addr, p)
      m == Modified(l, head)
      n == [m EXCEPT !.modified_on_fill[s] = @ \/ reserved,
                     !.byte_mask_on_fill = @ \/ reserved,
                     !.readable[s] = whole,
                     !.readable_on_fill[s] = @ \/ (reserved /\ ~whole)]
  IN
  /\ ~QueueFull(0)
  /\ SetTags(p, Readable(n, s), DirtyWith(DirtyAfter(head.addr, p), l))
  /\ Has(p, head, head.bytes)
  /\ UNCHANGED <<mshr, response, fields, below>>
  /\ IF config.write = "WRITE_THROUGH"
     THEN queue' = Append(queue, head) /\ UNCHANGED newest /\ Wait
     ELSE queue' = queue \o WriteBacks(p) /\ Written(head, p) /\ AnswerIfBack

\* m_wr_miss, as data_cache::init chooses it; process_tag_probe.
WriteMiss ==
  /\ head # None /\ IsWrite(head)
  /\ LET p == Probed IN
     /\ p.status # "HIT"
     /\ p.status = "RESERVATION_FAIL" => config.alloc = "NO_WRITE_ALLOCATE"
     /\ CASE config.alloc = "NO_WRITE_ALLOCATE" -> WriteMissNoAllocate
          [] config.alloc = "WRITE_ALLOCATE" -> WriteMissNaive(p)
          [] config.alloc = "FETCH_ON_WRITE" /\ head.bytes = Bytes -> WriteMissWhole(p)
          [] config.alloc = "FETCH_ON_WRITE" /\ head.bytes # Bytes -> WriteMissFetch(p)
          [] OTHER -> WriteMissLazy(p)

Access == (ReadHit \/ ReadMiss \/ WriteHit \/ WriteMiss) /\ UNCHANGED config

-----------------------------------------------------------------------------
(* baseline_cache *)

\* baseline_cache::cycle
Cycle ==
  /\ queue # << >>
  /\ queue' = Tail(queue)
  /\ below' = IF Head(queue).kind = "writeback" THEN below ELSE below \cup {Head(queue)}
  /\ UNCHANGED <<config, tags, mshr, response, fields, head, waiting, ghosts>>

\* sector_cache_block::fill
Filled(l, m) ==
  LET s == m.addr[2] IN
  [l EXCEPT !.status[s] = IF l.modified_on_fill[s] THEN "MODIFIED" ELSE "VALID",
            !.readable[s] = @ \/ l.readable_on_fill[s],
            !.readable_on_fill[s] = FALSE,
            !.byte_mask[s] = IF l.byte_mask_on_fill THEN @ \cup m.bytes ELSE @]

\* tag_array::fill: m_dirty after it.
DirtyFilled(l, m) ==
  IF IsModified(Filled(l, m)) /\ ~IsModified(l) THEN dirty + 1 ELSE dirty

MarkReady_Forgets(a) == UNCHANGED response

\* mshr_table::mark_ready: the entry that is answered next, and whether it has an atomic.
MarkReady(a) == response' = Append(response, a)
HasAtomic(a) == \E m \in Range(mshr[a]) : m.kind = "atomic"

\* baseline_cache::fill
Fill(f) ==
  LET a == f.mf.addr
      l == Filled(line[f.way], f.mf)
      d == DirtyFilled(line[f.way], f.mf)
  IN
  /\ f.mf \in below
  /\ IF f.left > 1
     THEN /\ fields' = (fields \ {f}) \cup {[f EXCEPT !.left = @ - 1]}
          /\ UNCHANGED <<tags, mshr, response, queue, below, ghosts>>
     ELSE /\ line' = [line EXCEPT ![f.way] = IF HasAtomic(a) THEN Modified(l, f.mf) ELSE l]
          /\ dirty' = IF HasAtomic(a) THEN DirtyWith(d, l) ELSE d
          /\ MarkReady(a)
          /\ fields' = fields \ {f}
          /\ below' = below \ {f.mf}
          /\ newest' = newest \cup {b \in {a} : \E m \in Range(mshr[a]) : Mutates(m)}
          /\ have' = IF line[f.way].tag = a[1]
                     THEN [have EXCEPT ![f.way][a[2]] = Bytes] ELSE have
          /\ UNCHANGED <<order, used, mshr, queue>>
  /\ UNCHANGED <<config, head, waiting>>

NextAccess_PopsResponse ==
  /\ response # << >>
  /\ LET a == Head(response)  m == Head(mshr[a]) IN
     /\ IF Len(mshr[a]) > 1
        THEN mshr' = [mshr EXCEPT ![a] = Tail(@)]
        ELSE mshr' = [b \in (DOMAIN mshr) \ {a} |-> mshr[b]]
     /\ response' = Tail(response)
     /\ waiting' = waiting \ {m.id}
  /\ UNCHANGED <<config, tags, queue, fields, below, head, ghosts>>

\* mshr_table::next_access, and the answer to the request it returns.
NextAccess ==
  /\ response # << >>
  /\ LET a == Head(response)  m == Head(mshr[a]) IN
     /\ IF Len(mshr[a]) > 1
        THEN mshr' = [mshr EXCEPT ![a] = Tail(@)] /\ UNCHANGED response
        ELSE mshr' = [b \in (DOMAIN mshr) \ {a} |-> mshr[b]] /\ response' = Tail(response)
     /\ waiting' = waiting \ {m.id}
  /\ UNCHANGED <<config, tags, queue, fields, below, head, ghosts>>

\* tag_array::flush, of the L2 when all threads are done, and tag_array::invalidate, of
\* the L1 at a memory barrier of any warp.
Invalidate(kind) ==
  LET hit == {w \in Way : kind = "invalidate" \/ IsModified(line[w])} IN
  /\ used
  /\ kind = "flush" => head = None /\ waiting = {}
  /\ line' = [w \in Way |-> IF w \in hit THEN [line[w] EXCEPT !.status = EmptyLine.status]
                            ELSE line[w]]
  /\ dirty' = 0 /\ used' = FALSE
  /\ newest' = {}
  /\ have' = [w \in Way |-> IF w \in hit THEN [s \in Sectors |-> {}] ELSE have[w]]
  /\ UNCHANGED <<config, order, misses, head, waiting>>

-----------------------------------------------------------------------------
(* The environment *)

\* The next request comes to the head of the queue.
Arrive ==
  /\ head = None
  /\ head' \in Request
  /\ head'.kind \in config.ops /\ head'.bytes \in config.masks /\ head'.id \notin waiting
  /\ UNCHANGED <<config, tags, misses, waiting, ghosts>>

\* Memory acknowledges a write.
WriteDone(m) ==
  /\ m \in below /\ m.kind = "write"
  /\ below' = below \ {m}
  /\ waiting' = waiting \ {m.id}
  /\ UNCHANGED <<config, tags, mshr, response, queue, fields, head, ghosts>>

Next ==
  \/ Arrive \/ Access \/ Cycle \/ NextAccess
  \/ \E f \in fields : Fill(f)
  \/ \E m \in below : WriteDone(m)
  \/ \E kind \in config.invalidates : Invalidate(kind)

\* The simulation loop runs every part of the cache in each cycle, and the memory
\* below answers whatever it is sent.
Fairness ==
  /\ WF_vars(Access) /\ WF_vars(Cycle) /\ WF_vars(NextAccess)
  /\ \A a \in Addr : WF_vars(\E f \in fields : f.mf.addr = a /\ Fill(f))
  /\ \A id \in Ids : WF_vars(\E m \in below : m.kind = "write" /\ m.id = id /\ WriteDone(m))

Spec == Init /\ [][Next]_vars
FairSpec == Spec /\ Fairness

-----------------------------------------------------------------------------
(* Properties *)

\* Where the answer to id comes from: an MSHR entry or, for a write, the memory.
InMshr(t, id) == UNION {{a} \X {i \in DOMAIN t[a] : t[a][i].id = id} : a \in DOMAIN t}
InQueue(q, id) == {i \in DOMAIN q : q[i].kind = "write" /\ q[i].id = id}
InBelow(b, id) == {m \in b : m.kind = "write" /\ m.id = id}

\* Each request the cache took is in exactly one of the places that will answer it: an
\* MSHR entry, or, as a write, the miss queue or the memory.  So it is answered once
\* and its mem_fetch is not used after that.
OneAnswer ==
  \A id \in Ids :
    Cardinality(InMshr(mshr, id)) + Cardinality(InQueue(queue, id))
    + Cardinality(InBelow(below, id)) = IF id \in waiting THEN 1 ELSE 0

\* An MSHR entry has one fetch on its way or is being answered, never both and never
\* neither: the assertions of mark_ready and next_access hold and no entry is left
\* without a fetch that will free it.
EntryAwaited ==
  /\ \A a \in DOMAIN mshr :
       /\ mshr[a] # << >>
       /\ Cardinality({f \in fields : f.mf.addr = a})
          + Cardinality({i \in DOMAIN response : response[i] = a}) = 1
  /\ Range(response) \subseteq DOMAIN mshr
  /\ \A f \in fields : /\ f.mf.addr \in DOMAIN mshr
                       /\ f.mf \in below \/ f.mf \in Range(queue)

\* The room tested for before an access (miss_queue_full(0), (1) or (2)) is the room it takes,
\* write-back included: a request that the cache takes does not overflow the miss queue,
\* and one that it does not take, which the caller tries again, leaves nothing in it.
CleanRetry ==
  [][/\ Len(queue') <= MissQueueSize
     /\ head # None /\ head' = head => Len(queue') <= Len(queue)]_vars

\* The policies under which a reserved sector stays reserved until its fill.  Under the
\* others (fetch-on-write, lazy fetch-on-read) a write makes it modified, and a memory
\* barrier, or a flush that finds another sector of its line modified, invalidates it.
ReservedUntilFill ==
  /\ config.alloc \in {"NO_WRITE_ALLOCATE", "WRITE_ALLOCATE"}
  /\ config.invalidates \subseteq IF Cardinality(Sectors) = 1 THEN {"flush"} ELSE {}

\* m_dirty, which decides whether modified lines may be replaced, counts them.
DirtyCount == ReservedUntilFill => dirty = Cardinality({w \in Way : IsModified(line[w])})

\* The answer to a fetch finds the sector it was sent for, still waiting.
FillFindsItsLine ==
  ReservedUntilFill =>
    \A f \in fields : /\ line[f.way].tag = f.mf.addr[1]
                     /\ line[f.way].status[f.mf.addr[2]] = "RESERVED"

\* A sector written here and nowhere else is marked as modified, or will be when its data
\* comes: the write is not lost when the line is replaced.
NoLostWrite ==
  ReservedUntilFill =>
    \A a \in newest :
      \E w \in Way :
        /\ line[w].tag = a[1]
        /\ \/ line[w].status[a[2]] = "MODIFIED"
           \/ line[w].status[a[2]] = "RESERVED" /\ line[w].modified_on_fill[a[2]]

\* A sector that a read hits has all its bytes.
ReadableHasData ==
  \A w \in Way : \A s \in Sectors :
    \/ line[w].status[s] = "VALID"
    \/ line[w].status[s] = "MODIFIED" /\ line[w].readable[s]
    => have[w][s] = Bytes

\* A reserved sector has a fetch on its way that will fill it.
ReservedAwaited ==
  \A w \in Way : \A s \in Sectors :
    line[w].status[s] = "RESERVED"
    => \E f \in fields : f.way = w /\ f.mf.addr = <<line[w].tag, s>>

\* Every request is taken at last, and what the cache has taken is answered.
Answered ==
  /\ head # None ~> head = None
  /\ \A id \in Ids : id \in waiting ~> id \notin waiting

================================================================================
