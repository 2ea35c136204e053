------------------------------ MODULE Allocator ------------------------------
(***************************************************************************)
(* rtl::RTAllocator<Mutex> (src/librtlcpp/include/rtlcpp/allocator.hpp)   *)
(* over detail::RTAllocator and an MMapMemoryResource                     *)
(* (src/librtlcpp/allocator.cpp), locked by std::mutex (RTAllocatorMT,    *)
(* the default) or rtl::SpinLock (src/librtlcpp/include/rtlcpp/mutex.hpp). *)
(*                                                                         *)
(* An owner thread maps a region, init()s the allocator on it, later      *)
(* uninit()s it and unmaps the region.  Client threads call allocate()    *)
(* and deallocate(); each call takes the lock, runs the TLSF function     *)
(* and releases the lock.  The TLSF arena (librtl, whose code is not      *)
(* under src/) is not thread-safe; it is modelled from its contract in    *)
(* src/librtl/include/rtl/memory.h as a free list of equal blocks with    *)
(* insertion at the head, each function reading the list head in one step *)
(* and writing it in the next, which is where two unsynchronised calls    *)
(* can interleave.  The owner's init/uninit hold the lock for one step.   *)
(***************************************************************************)
EXTENDS Naturals, Sequences, FiniteSets

CONSTANTS
  Clients,       \* client threads
  Blocks,        \* the arena's blocks
  NoBlock,       \* model value: a null void*
  MutexKinds,    \* subset of {"std", "spin"}: the Mutex template argument
  Capacities,    \* capacities passed to init(): 0, below and above the minimum
  MinArenaSize   \* rtl_tlsf_minimum_arena_size()

VARIABLES
  kind,      \* the Mutex of RTAllocator<Mutex>
  locked,    \* std::mutex owned / SpinLock::m_lock
  mapped,    \* MMapMemoryResource::m_initialized
  mbuf,      \* MMapMemoryResource::m_buf: "null", "failed" (MAP_FAILED), "region"
  ainit,     \* detail::RTAllocator::m_initialized
  abuf,      \* detail::RTAllocator::m_buf
  acap,      \* detail::RTAllocator::m_capacity
  head,      \* the arena's free list: first block
  nxt,       \* ... and each block's successor
  held,      \* held[c]: the block client c got from allocate (NoBlock: none)
  pc,        \* pc[c]: where client c is
  op,        \* op[c]: "alloc" or "free", the call c is in
  tmp,       \* tmp[c]: the list head c's TLSF function read
  opc        \* the owner: "mmap", "init", "run", "munmap", "end"

vars == <<kind, locked, mapped, mbuf, ainit, abuf, acap, head, nxt, held, pc, op, tmp, opc>>

Waiting == {"lock", "spin"}
InTlsf == {"allocRead", "allocWrite", "freeRead", "freeWrite"}

(***************************************************************************)
(* The TLSF arena, from its contract                                       *)
(***************************************************************************)

\* rtl_tlsf_make_arena(&arena, memory, sz): -2 when memory is not aligned
\* (nullptr or MAP_FAILED), -3 when sz < rtl_tlsf_minimum_arena_size();
\* on success every block is free
MakeArenaOk(buf, sz) == buf = "region" /\ sz >= MinArenaSize

FreshList == CHOOSE s \in [1 .. Cardinality(Blocks) -> Blocks] :
               \A i, j \in DOMAIN s : i # j => s[i] # s[j]

\* rtl_tlsf_alloc, first step: read the head of the free list
TlsfAllocRead(c) ==
  /\ pc[c] = "allocRead"
  /\ tmp' = [tmp EXCEPT ![c] = head]
  /\ pc' = [pc EXCEPT ![c] = IF head = NoBlock THEN "unlock" ELSE "allocWrite"]
  /\ UNCHANGED <<kind, locked, mapped, mbuf, ainit, abuf, acap, head, nxt, held, op, opc>>

\* rtl_tlsf_alloc, second step: unlink the block read; return it
TlsfAllocWrite(c) ==
  /\ pc[c] = "allocWrite"
  /\ head' = nxt[tmp[c]]
  /\ held' = [held EXCEPT ![c] = tmp[c]]
  /\ pc' = [pc EXCEPT ![c] = "unlock"]
  /\ UNCHANGED <<kind, locked, mapped, mbuf, ainit, abuf, acap, nxt, op, tmp, opc>>

\* rtl_tlsf_free, first step: "It is ok to pass in NULL"; read the head
TlsfFreeRead(c) ==
  /\ pc[c] = "freeRead"
  /\ tmp' = [tmp EXCEPT ![c] = head]
  /\ pc' = [pc EXCEPT ![c] = IF held[c] = NoBlock THEN "unlock" ELSE "freeWrite"]
  /\ UNCHANGED <<kind, locked, mapped, mbuf, ainit, abuf, acap, head, nxt, held, op, opc>>

\* rtl_tlsf_free, second step: insert the block at the head
TlsfFreeWrite(c) ==
  /\ pc[c] = "freeWrite"
  /\ nxt' = [nxt EXCEPT ![held[c]] = tmp[c]]
  /\ head' = held[c]
  /\ held' = [held EXCEPT ![c] = NoBlock]
  /\ pc' = [pc EXCEPT ![c] = "unlock"]
  /\ UNCHANGED <<kind, locked, mapped, mbuf, ainit, abuf, acap, op, tmp, opc>>

(***************************************************************************)
(* The lock                                                                *)
(***************************************************************************)

Body(c) == IF op[c] = "alloc" THEN "allocRead" ELSE "freeRead"

\* Mutant: lock() returns without waiting for the owner to unlock
AcquireStdNoWait(c) ==
  /\ kind = "std" /\ pc[c] = "lock"
  /\ locked' = TRUE
  /\ pc' = [pc EXCEPT ![c] = Body(c)]
  /\ UNCHANGED <<kind, mapped, mbuf, ainit, abuf, acap, head, nxt, held, op, tmp, opc>>

\* std::lock_guard<std::mutex>: std::mutex::lock blocks until it is free
AcquireStd(c) ==
  /\ kind = "std" /\ pc[c] = "lock" /\ ~locked
  /\ locked' = TRUE
  /\ pc' = [pc EXCEPT ![c] = Body(c)]
  /\ UNCHANGED <<kind, mapped, mbuf, ainit, abuf, acap, head, nxt, held, op, tmp, opc>>

\* Mutant: the exchange returns the old value but does not store true
SpinExchangeNoStore(c) ==
  /\ kind = "spin" /\ pc[c] = "lock"
  /\ pc' = [pc EXCEPT ![c] = IF locked THEN "spin" ELSE Body(c)]
  /\ UNCHANGED <<kind, locked, mapped, mbuf, ainit, abuf, acap, head, nxt, held, op, tmp, opc>>

\* SpinLock::lock: "got_false = m_lock.exchange(true); if (!got_false) return;"
SpinExchange(c) ==
  /\ kind = "spin" /\ pc[c] = "lock"
  /\ locked' = TRUE
  /\ pc' = [pc EXCEPT ![c] = IF locked THEN "spin" ELSE Body(c)]
  /\ UNCHANGED <<kind, mapped, mbuf, ainit, abuf, acap, head, nxt, held, op, tmp, opc>>

\* Mutant: once the load sees false the waiter takes the lock without the
\* exchange (another waiter may have taken it in between)
SpinWaitNoExchange(c) ==
  /\ pc[c] = "spin" /\ ~locked
  /\ pc' = [pc EXCEPT ![c] = Body(c)]
  /\ UNCHANGED <<kind, locked, mapped, mbuf, ainit, abuf, acap, head, nxt, held, op, tmp, opc>>

\* SpinLock::lock: "while (m_lock.load(relaxed)) asm_cpu_relax();" then
\* back to the exchange (the loop's iterations while it is true change
\* nothing)
SpinWait(c) ==
  /\ pc[c] = "spin" /\ ~locked
  /\ pc' = [pc EXCEPT ![c] = "lock"]
  /\ UNCHANGED <<kind, locked, mapped, mbuf, ainit, abuf, acap, head, nxt, held, op, tmp, opc>>

\* Mutant: the lock_guard's destructor does not unlock
ReleaseNoUnlock(c) ==
  /\ pc[c] = "unlock"
  /\ pc' = [pc EXCEPT ![c] = "idle"]
  /\ UNCHANGED <<kind, locked, mapped, mbuf, ainit, abuf, acap, head, nxt, held, op, tmp, opc>>

\* ~lock_guard: std::mutex::unlock / SpinLock::unlock (m_lock.store(false))
Release(c) ==
  /\ pc[c] = "unlock"
  /\ locked' = FALSE
  /\ pc' = [pc EXCEPT ![c] = "idle"]
  /\ UNCHANGED <<kind, mapped, mbuf, ainit, abuf, acap, head, nxt, held, op, tmp, opc>>

(***************************************************************************)
(* Clients: RTAllocator<Mutex>::allocate / deallocate                      *)
(***************************************************************************)

\* allocate(bytes): lock_guard, then detail::RTAllocator::allocate
\* ("assert(m_initialized); return rtl_tlsf_alloc(m_arena, bytes);"); a
\* client holds at most one block in the model
Allocate(c) ==
  /\ opc = "run" /\ pc[c] = "idle" /\ held[c] = NoBlock
  /\ pc' = [pc EXCEPT ![c] = "lock"] /\ op' = [op EXCEPT ![c] = "alloc"]
  /\ UNCHANGED <<kind, locked, mapped, mbuf, ainit, abuf, acap, head, nxt, held, tmp, opc>>

\* deallocate(p): lock_guard, then rtl_tlsf_free(m_arena, p); p may be nullptr
Deallocate(c) ==
  /\ opc = "run" /\ pc[c] = "idle"
  /\ pc' = [pc EXCEPT ![c] = "lock"] /\ op' = [op EXCEPT ![c] = "free"]
  /\ UNCHANGED <<kind, locked, mapped, mbuf, ainit, abuf, acap, head, nxt, held, tmp, opc>>

(***************************************************************************)
(* The owner                                                               *)
(***************************************************************************)

\* MMapMemoryResource::init(capacity): mmap; on failure m_buf stays
\* MAP_FAILED and init returns false
MMapInit ==
  /\ opc = "mmap"
  /\ \/ mapped' = TRUE /\ mbuf' = "region"
     \/ UNCHANGED mapped /\ mbuf' = "failed"
  /\ opc' = "init"
  /\ UNCHANGED <<kind, locked, ainit, abuf, acap, head, nxt, held, pc, op, tmp>>

\* RTAllocator<Mutex>::init(get_buf(), capacity) under the lock; then
\* detail::RTAllocator::init: "if (m_initialized) return true;
\* if (capacity == 0U) return false; m_capacity = capacity; m_buf = buf;
\* if (rtl_tlsf_make_arena(...) < 0) return false; m_initialized = true;"
AllocInit ==
  /\ opc = "init" /\ ~locked
  /\ \E cap \in Capacities :
       IF ainit THEN opc' = "run" /\ UNCHANGED <<ainit, abuf, acap, head, nxt>>
       ELSE IF cap = 0
       THEN UNCHANGED <<ainit, abuf, acap, head, nxt>> /\ opc' = "munmap"
       ELSE /\ acap' = cap /\ abuf' = mbuf
            /\ IF MakeArenaOk(mbuf, cap)
               THEN /\ ainit' = TRUE
                    /\ head' = FreshList[1]
                    /\ nxt' = [b \in Blocks |->
                                 LET i == CHOOSE j \in DOMAIN FreshList : FreshList[j] = b
                                 IN  IF i < Len(FreshList) THEN FreshList[i + 1] ELSE NoBlock]
                    /\ opc' = "run"
               ELSE UNCHANGED <<ainit, head, nxt>> /\ opc' = "munmap"
  /\ UNCHANGED <<kind, locked, mapped, mbuf, held, pc, op, tmp>>

\* Mutant: uninit() clears the flags but leaves m_arena as it was
AllocUninitKeepsArena ==
  /\ opc = "run" /\ ~locked /\ \A c \in Clients : pc[c] = "idle"
  /\ ainit' = FALSE /\ abuf' = "null" /\ acap' = 0
  /\ opc' = "munmap"
  /\ UNCHANGED <<kind, locked, mapped, mbuf, held, pc, op, tmp, head, nxt>>

\* uninit() under the lock, once the clients have stopped calling:
\* "if (!m_initialized) return; m_buf = nullptr; m_arena = nullptr;
\* m_capacity = 0U; m_initialized = false;"
AllocUninit ==
  /\ opc = "run" /\ ~locked /\ \A c \in Clients : pc[c] = "idle"
  /\ ainit' = FALSE /\ abuf' = "null" /\ acap' = 0
  /\ head' = NoBlock /\ nxt' = [b \in Blocks |-> NoBlock]
  /\ opc' = "munmap"
  /\ UNCHANGED <<kind, locked, mapped, mbuf, held, pc, op, tmp>>

\* MMapMemoryResource::uninit(): "if (!m_initialized) return;
\* munmap(m_buf, m_capacity); m_buf = nullptr; ... m_initialized = false;"
MMapUninit ==
  /\ opc = "munmap"
  /\ IF mapped THEN mapped' = FALSE /\ mbuf' = "null" ELSE UNCHANGED <<mapped, mbuf>>
  /\ opc' = "end"
  /\ UNCHANGED <<kind, locked, ainit, abuf, acap, head, nxt, held, pc, op, tmp>>

(***************************************************************************)
(* Specification                                                           *)
(***************************************************************************)

\* MMapMemoryResource() and RTAllocator(): nothing mapped or initialized
Init ==
  /\ kind \in MutexKinds /\ locked = FALSE
  /\ mapped = FALSE /\ mbuf = "null"
  /\ ainit = FALSE /\ abuf = "null" /\ acap = 0
  /\ head = NoBlock /\ nxt = [b \in Blocks |-> NoBlock]
  /\ held = [c \in Clients |-> NoBlock]
  /\ pc = [c \in Clients |-> "idle"] /\ op = [c \in Clients |-> "alloc"]
  /\ tmp = [c \in Clients |-> NoBlock]
  /\ opc = "mmap"

\* A client's steps once it has called allocate or deallocate
Step(c) ==
  \/ AcquireStd(c) \/ SpinExchange(c) \/ SpinWait(c)
  \/ TlsfAllocRead(c) \/ TlsfAllocWrite(c) \/ TlsfFreeRead(c) \/ TlsfFreeWrite(c)
  \/ Release(c)

Next ==
  \/ MMapInit \/ AllocInit \/ AllocUninit \/ MMapUninit
  \/ \E c \in Clients : Allocate(c) \/ Deallocate(c) \/ Step(c)

\* A thread inside a call keeps running (WF on each client's steps); the
\* clients need not call and the owner need not tear down.  Neither
\* std::mutex nor SpinLock promises that a given waiter ever gets the lock.
Spec == Init /\ [][Next]_vars /\ \A c \in Clients : WF_vars(Step(c))

(***************************************************************************)
(* Properties                                                              *)
(***************************************************************************)

\* The free list from head, at most |Blocks| steps (a corrupted list may
\* be cyclic)
RECURSIVE ListFrom(_, _)
ListFrom(b, n) == IF b = NoBlock \/ n = 0 THEN <<>> ELSE <<b>> \o ListFrom(nxt[b], n - 1)

FreeList == ListFrom(head, Cardinality(Blocks) + 1)

Occurrences(b) == Cardinality({i \in 1 .. Len(FreeList) : FreeList[i] = b})
             + Cardinality({c \in Clients : held[c] = b})

\* The variables' types, and no arena (m_arena null) while not initialized
TypeOK ==
  /\ ~ainit => head = NoBlock
  /\ kind \in {"std", "spin"} /\ locked \in BOOLEAN
  /\ mapped \in BOOLEAN /\ mbuf \in {"null", "failed", "region"}
  /\ ainit \in BOOLEAN /\ abuf \in {"null", "failed", "region"} /\ acap \in Nat
  /\ head \in Blocks \cup {NoBlock} /\ nxt \in [Blocks -> Blocks \cup {NoBlock}]
  /\ held \in [Clients -> Blocks \cup {NoBlock}]
  /\ pc \in [Clients -> {"idle", "unlock"} \cup Waiting \cup InTlsf]
  /\ opc \in {"mmap", "init", "run", "munmap", "end"}

\* The arena is never entered by two threads at once: RTAllocator's
\* lock_guard around rtl_tlsf_alloc / rtl_tlsf_free, with std::mutex or
\* SpinLock's exchange loop, is what keeps the non-thread-safe TLSF safe.
ArenaExclusive ==
  \A c, d \in Clients : c # d => ~(pc[c] \in InTlsf /\ pc[d] \in InTlsf)

\* While the allocator is initialized every block is in exactly one place:
\* once on the free list or with exactly one client - concurrent
\* allocate/deallocate calls never hand a block to two clients, lose a
\* freed block, or put it on the list twice.
BlockOwnership == ainit => \A b \in Blocks : Occurrences(b) = 1

\* The lock is never lost: whenever a client waits for it, some client
\* eventually gets into the arena (std::mutex and SpinLock promise no more
\* than this - a particular waiter may starve).
LockProgress ==
  (\E c \in Clients : pc[c] \in Waiting) ~> (\E c \in Clients : pc[c] \in InTlsf)

\* The caller's view of a client: "null" once its allocate has found the
\* free list empty, until its lock_guard is released
Result == [c \in Clients |->
             IF pc[c] = "unlock" /\ op[c] = "alloc" /\ held[c] = NoBlock
             THEN "null" ELSE "none"]

AA == INSTANCE AbstractAllocator
        WITH ready <- ainit, avail <- {FreeList[i] : i \in DOMAIN FreeList},
             owned <- held, result <- Result

\* RTAllocator<Mutex> implements the allocator concept: every allocate and
\* deallocate, with its lock_guard and the TLSF steps it runs, takes effect
\* at one step as an atomic call of AbstractAllocator would - a block is
\* handed out only while free and to one caller, NULL is returned only
\* when nothing is free, and init/uninit make the whole arena free/gone.
ImplementsAllocatorConcept == AA!ASpec

====
