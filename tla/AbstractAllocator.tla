-------------------------- MODULE AbstractAllocator --------------------------
(***************************************************************************)
(* What an allocator promises its callers, stated from the comments of    *)
(* src/librtlcpp/include/rtlcpp/allocator.hpp (the RTL Allocator Concept   *)
(* and RTAllocator::init/uninit) and of rtl_tlsf_alloc / rtl_tlsf_free in *)
(* src/librtl/include/rtl/memory.h.  Each call takes effect at once:      *)
(*   - init(buf, capacity) returning true: the allocator is ready to use  *)
(*     and the whole arena is free;                                       *)
(*   - allocate(sz): bytes nobody else holds, or NULL only when it "can   *)
(*     not do this" - no free memory is left;                             *)
(*   - deallocate(p): p is freed back to the heap (NULL is allowed);      *)
(*   - uninit(): the allocator is no longer ready.                        *)
(* A caller holds at most one block; result[c] is "null" from the moment  *)
(* c's allocate has returned NULL until the call is over.                 *)
(***************************************************************************)
CONSTANTS Clients, Blocks, NoBlock

VARIABLES
  ready,   \* initialized and not yet uninitialized
  avail,   \* the free blocks
  owned,   \* owned[c]: the block c got from allocate, or NoBlock
  result   \* result[c]: "null" while c's allocate returns NULL, else "none"

avars == <<ready, avail, owned, result>>

AInit ==
  /\ ready = FALSE /\ avail = {}
  /\ owned = [c \in Clients |-> NoBlock] /\ result = [c \in Clients |-> "none"]

\* init() returns true: ready to use, every block free
Ready ==
  /\ ~ready /\ ready' = TRUE /\ avail' = Blocks
  /\ UNCHANGED <<owned, result>>

\* allocate(): a block that is free, which is no longer free
AAllocate(c, b) ==
  /\ ready /\ owned[c] = NoBlock /\ b \in avail
  /\ avail' = avail \ {b} /\ owned' = [owned EXCEPT ![c] = b]
  /\ UNCHANGED <<ready, result>>

\* allocate() returns NULL: only when nothing is free
AllocateNull(c) ==
  /\ ready /\ owned[c] = NoBlock /\ avail = {} /\ result[c] = "none"
  /\ result' = [result EXCEPT ![c] = "null"]
  /\ UNCHANGED <<ready, avail, owned>>

\* the call that returned NULL is over
Return(c) ==
  /\ result[c] = "null"
  /\ result' = [result EXCEPT ![c] = "none"]
  /\ UNCHANGED <<ready, avail, owned>>

\* deallocate(p): the block c holds is free again
ADeallocate(c) ==
  /\ ready /\ owned[c] # NoBlock
  /\ avail' = avail \cup {owned[c]} /\ owned' = [owned EXCEPT ![c] = NoBlock]
  /\ UNCHANGED <<ready, result>>

\* uninit(): no longer ready, the arena gone
Retire ==
  /\ ready /\ ready' = FALSE /\ avail' = {}
  /\ UNCHANGED <<owned, result>>

ANext ==
  \/ Ready \/ Retire
  \/ \E c \in Clients :
       \/ \E b \in Blocks : AAllocate(c, b)
       \/ AllocateNull(c) \/ Return(c) \/ ADeallocate(c)

ASpec == AInit /\ [][ANext]_avars

====
