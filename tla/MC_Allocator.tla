---------------------------- MODULE MC_Allocator ----------------------------
EXTENDS Allocator

CONSTANTS c1, c2, c3, b1, b2

MCClients == {c1, c2, c3}
MCBlocks == {b1, b2}
\* std::mutex (RTAllocatorMT) and SpinLock; RTAllocatorST's NullMutex is
\* for single-threaded use and has no lock to model
MCMutexKinds == {"std", "spin"}
\* capacity 0, one below rtl_tlsf_minimum_arena_size(), and enough
MCCapacities == {0, 1, 2}
====
