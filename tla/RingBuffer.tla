----------------------------- MODULE RingBuffer -----------------------------
(***************************************************************************)
(* rtl::spsc_ringbuffer (src/librtlcpp/ring_buffer.cpp): a "one behind"   *)
(* single-producer / single-consumer byte ring over m_buf[0..Capacity-1]. *)
(*                                                                         *)
(* One producer thread calls write, write_bytes, alloc_contig +           *)
(* commit_write and compound_alloc_contig + commit_write; one consumer    *)
(* thread calls read and read_contig + commit_read.  Each call is split   *)
(* at the points where the other thread can interleave:                   *)
(*   Begin  - the acquire loads of both indices and the size arithmetic   *)
(*            (with every early return of the function);                  *)
(*   Copy   - the memcpy between the caller's buffer and m_buf (for the   *)
(*            contiguous API: the caller's own reads/writes through the   *)
(*            returned pointer);                                          *)
(*   Commit - the release store of the thread's own index.                *)
(* The atomics are sequentially consistent in the model; acquire/release  *)
(* gives the same orders for two threads that each store only one index.  *)
(*                                                                         *)
(* The producer writes the byte stream 0, 1, 2, ...: the byte of stream   *)
(* position i has value i.  Bytes memcpy'd from beyond the end of the     *)
(* caller's input buffer have the value Junk.                             *)
(***************************************************************************)
EXTENDS Naturals, Sequences, FiniteSets, TLC

CONSTANTS
  Capacity,         \* m_capacity: length of the buffer handed to the constructor
  MaxBytes,         \* bound: total stream bytes the producer hands to the ring
  ClampWriteBytes,  \* client discipline: write_bytes is never asked for more
                    \* than approx_free_bytes() (see README)
  Junk              \* model value: a byte read from outside the input buffer

ASSUME Capacity \in Nat \ {0}
ASSUME MaxBytes \in Nat
ASSUME ClampWriteBytes \in BOOLEAN

VARIABLES
  buf,       \* m_buf[0..Capacity-1]
  wIdx,      \* m_write_index (atomic, stored only by the producer)
  rIdx,      \* m_read_index (atomic, stored only by the consumer)
  produced,  \* stream bytes the producer has committed (history)
  consumed,  \* bytes the consumer got back from read/read_contig (history)
  ppc,       \* producer program counter
  cpc,       \* consumer program counter
  pop,       \* producer operation in flight
  cop,       \* consumer operation in flight
  pret,      \* return value of the producer's last write/write_bytes
  pfree,     \* <<n>>: what the producer's last approx_free_bytes() returned,
             \* <<>> once it has started a transfer since
  csize,     \* <<n>>: the consumer's last approx_size(), likewise
  cempty     \* <<b>>: the consumer's last empty(), likewise

vars == <<buf, wIdx, rIdx, produced, consumed, ppc, cpc, pop, cop, pret, pfree, csize, cempty>>

Idx == 0 .. Capacity - 1

\* m_writable_capacity, set by the constructor
WritableCapacity == IF Capacity > 0 THEN Capacity - 1 ELSE 0

Min2(a, b) == IF a < b THEN a ELSE b

\* Mutant: the wrapped branch counts one byte too many
GetBytesWrittenPlusOne(w, r) ==
  IF w >= r THEN w - r ELSE (WritableCapacity - r + 2) + w

\* spsc_ringbuffer::get_bytes_written
GetBytesWritten(w, r) ==
  IF w >= r THEN w - r ELSE (WritableCapacity - r + 1) + w

\* Mutant: approx_size passes the indices in the wrong order
ApproxSizeSwapped(w, r) == GetBytesWritten(r, w)

\* spsc_ringbuffer::approx_size, given the two indices it loaded
ApproxSize(w, r) == GetBytesWritten(w, r)

\* Byte i (0-based) of an input buffer of sz bytes holding the stream from base
InputByte(base, sz, i) == IF i < sz THEN base + i ELSE Junk

\* A contiguous run of m_buf from position p, length n (no wrap)
Run(p, n, base, sz, off) == [i \in p .. p + n - 1 |-> InputByte(base, sz, off + i - p)]

(***************************************************************************)
(* spsc_ringbuffer::priv_write: the effect of its memcpy calls on m_buf,   *)
(* as a function from slot to the input byte stored there, and the number *)
(* of input bytes those memcpy calls read.                                *)
(***************************************************************************)
PrivWritePlan(w, r, amt, base, sz) ==
  IF w >= r
  THEN LET ue == WritableCapacity - w + 1
           fb == IF ue > amt THEN 0 ELSE amt - ue
       IN  Run(w, ue, base, sz, 0) @@ Run(0, fb, base, sz, ue)
  ELSE Run(w, amt, base, sz, 0)

PrivWriteInputRead(w, r, amt) ==
  IF w >= r
  THEN LET ue == WritableCapacity - w + 1
       IN  ue + (IF ue > amt THEN 0 ELSE amt - ue)
  ELSE amt

\* Mutant: the sentinel slot is handed out even when m_read_index is 0
LargestWriteRunNoSentinel(w, r) ==
  IF w >= r THEN WritableCapacity - w + 1 ELSE r - w - 1

\* Largest contiguous writable run from w (alloc_contig, compound_alloc_contig)
LargestWriteRun(w, r) ==
  IF w >= r
  THEN (WritableCapacity - w) + (IF r # 0 THEN 1 ELSE 0)
  ELSE r - w - 1

\* Largest contiguous readable run from r (read_contig)
LargestReadRun(w, r) ==
  IF w >= r THEN w - r ELSE WritableCapacity - r + 1

\* Ring positions r, r+1, ... (n of them) in reading order
RingSeq(r, n) == [i \in 1 .. n |-> (r + i - 1) % Capacity]

NoOp == [plan |-> <<>>, adv |-> 0, cnt |-> 0, inRead |-> 0, sz |-> 0,
         pos |-> <<>>, copyLen |-> 0, max |-> 0]

\* Start a producer operation that memcpy's plan and then stores w + adv
StartWrite(plan, adv, cnt, inRead, sz) ==
  /\ produced + cnt <= MaxBytes
  /\ ppc' = "copy"
  /\ pfree' = <<>>
  /\ pop' = [NoOp EXCEPT !.plan = plan, !.adv = adv, !.cnt = cnt,
                         !.inRead = inRead, !.sz = sz]

ProducerReturns(v) ==
  /\ pret' = v
  /\ UNCHANGED <<ppc, pop, pfree>>

(***************************************************************************)
(* Producer                                                                *)
(***************************************************************************)

\* spsc_ringbuffer::write(input, sz): all or nothing
Write(sz) ==
  /\ ppc = "idle"
  /\ LET w == wIdx
         r == rIdx
         space == WritableCapacity - GetBytesWritten(w, r)
     IN  \/ /\ sz > WritableCapacity
            /\ ProducerReturns(FALSE)
         \/ /\ sz = 0
            /\ ProducerReturns(TRUE)
         \/ /\ sz \in 1 .. WritableCapacity
            /\ sz > space
            /\ ProducerReturns(FALSE)
         \/ /\ sz \in 1 .. WritableCapacity
            /\ sz <= space
            /\ StartWrite(PrivWritePlan(w, r, Min2(sz, space), produced, sz),
                          sz, sz, PrivWriteInputRead(w, r, Min2(sz, space)), sz)
            /\ pret' = TRUE
  /\ UNCHANGED <<buf, wIdx, rIdx, produced, consumed, cpc, cop, csize, cempty>>

\* spsc_ringbuffer::write_bytes(input, sz): partial writes, returns amt
WriteBytes(sz0) ==
  /\ ppc = "idle"
  /\ LET sz == Min2(sz0, WritableCapacity)
         w == wIdx
         r == rIdx
         space == WritableCapacity - GetBytesWritten(w, r)
         amt == Min2(sz, space)
     IN  /\ ClampWriteBytes => pfree # <<>> /\ sz0 <= pfree[1]
         /\ \/ /\ sz = 0
               /\ ProducerReturns(0)
            \/ /\ sz > 0
               /\ StartWrite(PrivWritePlan(w, r, amt, produced, sz),
                             sz, amt, PrivWriteInputRead(w, r, amt), sz)
               /\ pret' = amt
  /\ UNCHANGED <<buf, wIdx, rIdx, produced, consumed, cpc, cop, csize, cempty>>

\* alloc_contig(&sz, &eob), the caller writing n <= *sz bytes through the
\* returned pointer, then commit_write(n)
AllocContig(req) ==
  /\ ppc = "idle"
  /\ LET w == wIdx
         largest == LargestWriteRun(w, rIdx)
         got == IF largest < req THEN largest ELSE req
     IN  \E n \in 0 .. got :
           StartWrite(Run(w, n, produced, n, 0), n, n, n, n)
  /\ UNCHANGED <<buf, wIdx, rIdx, produced, consumed, cpc, cop, pret, csize, cempty>>

\* compound_alloc_contig(), the caller writing n <= first_sz + second_sz
\* bytes (first segment, then second), then commit_write(n)
CompoundAllocContig ==
  /\ ppc = "idle"
  /\ LET w == wIdx
         r == rIdx
         free == WritableCapacity - GetBytesWritten(w, r)
         first == LargestWriteRun(w, r)
         second == IF first = 0 THEN 0 ELSE free - first
     IN  \E n \in 0 .. first + second :
           LET n1 == Min2(n, first)
           IN  StartWrite(Run(w, n1, produced, n, 0) @@ Run(0, n - n1, produced, n, n1),
                          n, n, n, n)
  /\ UNCHANGED <<buf, wIdx, rIdx, produced, consumed, cpc, cop, pret, csize, cempty>>

\* The memcpy of the operation in flight lands in m_buf
ProducerCopy ==
  /\ ppc = "copy"
  /\ buf' = [i \in Idx |-> IF i \in DOMAIN pop.plan THEN pop.plan[i] ELSE buf[i]]
  /\ ppc' = "commit"
  /\ UNCHANGED <<wIdx, rIdx, produced, consumed, cpc, pop, cop, pret, pfree, csize, cempty>>

\* Mutant: the new write index is not reduced modulo m_capacity
ProducerCommitNoWrap ==
  /\ ppc = "commit"
  /\ wIdx' = wIdx + pop.adv
  /\ produced' = produced + pop.cnt
  /\ ppc' = "idle"
  /\ pop' = NoOp
  /\ UNCHANGED <<buf, rIdx, consumed, cpc, cop, pret, pfree, csize, cempty>>

\* m_write_index.store((write_index + n) % m_capacity, release);
\* commit_write(0) returns before the store
ProducerCommit ==
  /\ ppc = "commit"
  /\ wIdx' = IF pop.adv = 0 THEN wIdx ELSE (wIdx + pop.adv) % Capacity
  /\ produced' = produced + pop.cnt
  /\ ppc' = "idle"
  /\ pop' = NoOp
  /\ UNCHANGED <<buf, rIdx, consumed, cpc, cop, pret, pfree, csize, cempty>>

\* approx_free_bytes(): m_writable_capacity - approx_size().  approx_size
\* loads m_write_index, which only the producer stores, and then
\* m_read_index: the call takes effect at that second load.  Never below 0:
\* get_bytes_written is at most m_writable_capacity.
ApproxFreeBytes ==
  /\ ppc = "idle"
  /\ pfree' = <<WritableCapacity - ApproxSize(wIdx, rIdx)>>
  /\ UNCHANGED <<buf, wIdx, rIdx, produced, consumed, ppc, cpc, pop, cop, pret, csize, cempty>>

(***************************************************************************)
(* Consumer                                                                *)
(***************************************************************************)

\* approx_size(): the load of m_write_index, then of the consumer's own
\* m_read_index, which cannot change in between
ConsumerApproxSize ==
  /\ cpc = "idle"
  /\ csize' = <<ApproxSize(wIdx, rIdx)>>
  /\ UNCHANGED <<buf, wIdx, rIdx, produced, consumed, ppc, cpc, pop, cop, pret, pfree, cempty>>

\* empty(): the consumer's own m_read_index, then m_write_index
ConsumerEmpty ==
  /\ cpc = "idle"
  /\ cempty' = <<rIdx = wIdx>>
  /\ UNCHANGED <<buf, wIdx, rIdx, produced, consumed, ppc, cpc, pop, cop, pret, pfree, csize>>

StartRead(pos, adv, copyLen, max) ==
  /\ cpc' = "copy"
  /\ csize' = <<>> /\ cempty' = <<>>
  /\ cop' = [NoOp EXCEPT !.pos = pos, !.adv = adv, !.copyLen = copyLen, !.max = max]

\* spsc_ringbuffer::read(output, max_read)
Read(max0) ==
  /\ cpc = "idle"
  /\ LET max == Min2(max0, WritableCapacity)
         w == wIdx
         r == rIdx
         amt == Min2(max, GetBytesWritten(w, r))
         ue == WritableCapacity - r + 1
         copyLen == IF w >= r THEN amt
                    ELSE ue + (IF ue > amt THEN 0 ELSE amt - ue)
     IN  /\ max > 0
         /\ StartRead(RingSeq(r, amt), amt, copyLen, max0)
  /\ UNCHANGED <<buf, wIdx, rIdx, produced, consumed, ppc, pop, pret, pfree>>

\* read_contig(&sz, &eob), the caller reading n <= *sz bytes through the
\* returned pointer, then commit_read(n)
ReadContig(req) ==
  /\ cpc = "idle"
  /\ LET r == rIdx
         largest == LargestReadRun(wIdx, r)
         got == IF largest < req THEN largest ELSE req
     IN  \E n \in 0 .. got : StartRead(RingSeq(r, n), n, n, n)
  /\ UNCHANGED <<buf, wIdx, rIdx, produced, consumed, ppc, pop, pret, pfree>>

\* The memcpy out of m_buf: the caller receives the bytes at pos
ConsumerCopy ==
  /\ cpc = "copy"
  /\ consumed' = consumed \o [i \in 1 .. Len(cop.pos) |-> buf[cop.pos[i]]]
  /\ cpc' = "commit"
  /\ UNCHANGED <<buf, wIdx, rIdx, produced, ppc, pop, cop, pret, pfree, csize, cempty>>

\* m_read_index.store((read_index + n) % m_capacity, release);
\* commit_read(0) returns before the store
ConsumerCommit ==
  /\ cpc = "commit"
  /\ rIdx' = IF cop.adv = 0 THEN rIdx ELSE (rIdx + cop.adv) % Capacity
  /\ cpc' = "idle"
  /\ cop' = NoOp
  /\ UNCHANGED <<buf, wIdx, produced, consumed, ppc, pop, pret, pfree, csize, cempty>>

(***************************************************************************)
(* Specification                                                           *)
(***************************************************************************)

\* Request sizes: every size up to one past the writable capacity
Sizes == 0 .. Capacity

Init ==
  /\ buf = [i \in Idx |-> Junk]
  /\ wIdx = 0
  /\ rIdx = 0
  /\ produced = 0
  /\ consumed = <<>>
  /\ ppc = "idle"
  /\ cpc = "idle"
  /\ pop = NoOp
  /\ cop = NoOp
  /\ pret = TRUE
  /\ pfree = <<>> /\ csize = <<>> /\ cempty = <<>>

Producer ==
  \/ \E sz \in Sizes : Write(sz) \/ WriteBytes(sz) \/ AllocContig(sz)
  \/ CompoundAllocContig
  \/ ApproxFreeBytes
  \/ ProducerCopy
  \/ ProducerCommit

Consumer ==
  \/ \E sz \in Sizes : Read(sz) \/ ReadContig(sz)
  \/ ConsumerApproxSize \/ ConsumerEmpty
  \/ ConsumerCopy
  \/ ConsumerCommit

Next == Producer \/ Consumer

Spec == Init /\ [][Next]_vars

(***************************************************************************)
(* Properties                                                              *)
(***************************************************************************)

TypeOK ==
  /\ buf \in [Idx -> Nat \cup {Junk}]
  /\ wIdx \in Idx /\ rIdx \in Idx
  /\ produced \in 0 .. MaxBytes
  /\ consumed \in Seq(Nat \cup {Junk})
  /\ ppc \in {"idle", "copy", "commit"} /\ cpc \in {"idle", "copy", "commit"}

\* Ring buffer integrity (SPSC): whatever the chunking of writes and reads
\* and however the two threads interleave, the consumer receives exactly the
\* producer's stream 0, 1, 2, ... in order, never a byte it did not write.
StreamIntegrity ==
  /\ Len(consumed) <= produced + pop.cnt
  /\ \A i \in 1 .. Len(consumed) : consumed[i] = i - 1

\* The size queries the header calls approximate are safe to act on by the
\* two SPSC threads: until the producer starts its next transfer, the
\* approx_free_bytes() it got is at most the real free space (the consumer
\* only frees more), and until the consumer starts its next read the
\* approx_size() it got is at most the real size and an empty() of false
\* still means there is a byte to read (the producer only adds).  This is
\* what lets the producer size write_bytes() by approx_free_bytes().
ConservativeQueries ==
  LET size == GetBytesWritten(wIdx, rIdx)
  IN  /\ pfree # <<>> => pfree[1] <= WritableCapacity - size
      /\ csize # <<>> => csize[1] <= size
      /\ cempty = <<FALSE>> => size > 0

\* Slots a memcpy in flight touches
WriteSlots == IF ppc = "copy" THEN DOMAIN pop.plan ELSE {}
ReadSlots  == IF cpc = "copy" THEN {cop.pos[i] : i \in 1 .. Len(cop.pos)} ELSE {}

\* No data race on m_buf: the producer never memcpy's into a slot the
\* consumer is copying out of at the same time.
NoDataRace == WriteSlots \cap ReadSlots = {}

\* The memcpy calls of read() and of write()/write_bytes() stay inside the
\* caller's buffers: read() stores at most max_read bytes into output ("This
\* function assumes that output can handle up to max_read bytes") and a write
\* reads at most the sz bytes of input.
CopiesStayInCallerBuffers ==
  /\ cpc = "copy" => cop.copyLen <= cop.max
  /\ ppc = "copy" => pop.inRead <= pop.sz

=============================================================================
