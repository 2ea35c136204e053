# TLA+ models of the real-time library

This directory holds TLA+ models of the C++ part of the library
(`src/librtlcpp`). They are checked with TLC. Each model is translated from
the source. Its definitions keep the code's names, and `PROJECT.json`
("map") gives the lines each definition stands for.

## The system and how its parts interact

| Part | Source | What it is |
|---|---|---|
| SPSC ring buffer | `ring_buffer.cpp/.hpp` | A byte ring shared by one producer thread and one consumer thread. Each thread stores only its own atomic index. |
| `unordered_map` | `map.hpp` | A chained hash map that resizes incrementally. Its states are STABLE, TRANSFER (entries move a few at a time from main to secondary) and ERROR. |
| `vector` | `vector.hpp` | The growable array under the map's buckets and the pool's free list. |
| `object_pool` | `object_pool.hpp` | A free list of raw slots. `get()` refills it by `m_elasticity` slots. `Obj` is the RAII handle. |
| `lru` | `lru.hpp` | An LRU cache built from an `unordered_map<Key, LRUNode*>`, an `object_pool<LRUNode>` and an intrusive list. |
| `shared_ptr`/`weak_ptr` | `memory.hpp` | Reference counting through a control block with two atomic counts. |
| periodic task, mutex | `task.hpp`, `mutex.hpp` | A worker thread, a condition variable and shutdown. |
| allocator facade | `allocator.cpp/.hpp` | Wraps TLSF and mmap. Every other part allocates through it. |

The allocator is the one dependency every other part shares. Each model
treats an allocation as either a success or an injected failure. The failures
are counted by one variable `failures`, bounded by `MaxAllocFailures` and
restricted to the sites in `AllocFailSites`. The LRU shares that counter with
the map and the pool that it composes.

## Modules

| Module | Models |
|---|---|
| `RingBuffer` / `MC_RingBuffer` | Every producer call (`write`, `write_bytes`, `alloc_contig`, `compound_alloc_contig`, `commit_write`) and every consumer call (`read`, `read_contig`, `commit_read`), plus the size queries `approx_free_bytes` (producer), `approx_size` and `empty` (consumer). Each call is split into three steps: **Begin**, **Copy** and **Commit** (see below). The stream is 0,1,2,…, so any byte that is read shows where it came from. |
| `UnorderedMap` / `MC_UnorderedMap` | The map's state and operations (see below). |
| `Vector` | `rtl::vector`'s member functions as operators on a value `[es, cap]` (see below). No state of its own: it is instantiated by `UnorderedMap` (each bucket's `m_entries`) and `ObjectPool` (`m_vector`). |
| `ObjectPool` / `MC_ObjectPool` | The pool's state and operations (see below). |
| `Ownership` / `MC_Ownership` | Which allocation each `unique_ptr`, `shared_ptr`, `weak_ptr`, control block and raw pointer owns, through every `make_shared`/`make_unique` overload (see below). |
| `SmartPtr` / `MC_SmartPtr` | Threads that own shared and weak handles to one control block, with each thread's program counter (see below). |
| `LRU` / `MC_LRU` | The cache, built on the map and pool models (see below). |
| `AbstractLRU` | The cache as `lru.hpp` documents it (see below). |
| `PeriodicTask` / `MC_PeriodicTask` | `task.hpp`: the owner, the worker thread and a notifier (see below). |
| `Allocator` / `MC_Allocator` | `RTAllocator<Mutex>` with `std::mutex` or `SpinLock`, `detail::RTAllocator`, `MMapMemoryResource`, and the TLSF arena from its contract in `memory.h` (see below). |
| `AbstractAllocator` | The Allocator Concept of `allocator.hpp` and the `rtl_tlsf_alloc`/`rtl_tlsf_free` contract, as atomic calls (see below). |

**RingBuffer.** The three steps of a call are:

- **Begin**: the acquire loads of both indices, the size arithmetic and every early return.
- **Copy**: the `memcpy`, or, for the contiguous API, the caller's own access through the returned pointer.
- **Commit**: the release store of the thread's own index.

A size query is one step. Each query loads the calling thread's own index, which no other thread stores, and the other thread's index. The query therefore takes effect at the second load. Its result is kept in `pfree`, `csize` or `cempty`, and that thread's next transfer clears it. With `ClampWriteBytes`, the producer calls `write_bytes(n)` only with `n` no larger than the `approx_free_bytes()` it got. This is how a client of the class sizes its writes. Before this change the model used the exact free space as an oracle.

**UnorderedMap.** The state is `state`, `main`, `secondary`, `cursor`, `locked` and `failures`. The tables are records that hold the vectors of buckets. Each operation is one pure operator on the map record:

- `get`: `MapGet`
- `put`: `MapPut`
- `del`: `MapDel`
- `delete_all_keys`: `MapDeleteAllKeys`
- `reserve`: `MapReserve`
- the constructor: `NewMap`

A Table is built by `NewTable`, which calls `Expand`, the model of `Table::expand`. `expand` ignores the result of `m_buckets.reserve(num)`. Its `push_back`s then reallocate only at the sizes 0, 1, 2, 4, …, where the count equals the capacity. So one failure (of `reserve`) is recovered, and a second failure stops the table short of its prime, possibly at 0 buckets. `begin_resize` rejects such a secondary. The constructor keeps it as `main`. Every `Table` function returns early on 0 buckets, and `should_resize` then sees the load factor reached and resizes on the next call.

Each operator returns the set of possible outcomes, because an allocation may fail. The actions `Get`, `Put`, `Del`, `DeleteAllKeys`, `Reserve`, `Finalize`, `LockTableSize` and `UnlockTableSize` apply these operators. `dict` is the caller's view of the map, a history variable. `hung` records that `finalize`/`reserve` entered a loop that can never end.

**ObjectPool.** The state is `free`, `cap`, `unused` (slots the allocator still has), `hold` (the caller's handles) and `lastGet`, plus two history variables: `lost` (slots dropped at a failed `m_vector.push_back`, recorded from the vector's own failure in `add_to_pool`'s loop and in `put`) and `copied` (slots of which an `Obj` was copied or moved). The actions are:

- `Get`: `get`/`get_auto`
- `Release`: `put` or `~Obj`
- `CopyObj`: `Obj`'s defaulted copy or move
- `SetElasticity`

**Vector.** `es` is the sequence of the `m_count` constructed elements (`es[i+1]` is `m_buf[i]`) and `cap` is `m_capacity`. `Reserve`, `PushBack` (both overloads) and `Copy` may allocate: they take `canFail` and return the set of outcomes `[ok, v, failed]`. `Reserve` follows the code's reverse-order move loop (`MoveInto`), `RemoveStable` its swap loop (`SwapForward`), and `Copy` builds `rval` with `reserve(o_cap)` and one `push_back` per element (`PushAll`) before it replaces the vector. `PopBack`, `Back`, `Clear`, `RemoveFast` and `At` have no failure. The map's buckets use `PushBack`, `RemoveFast`, `Clear`, `Back` and `PopBack`. The pool's free list uses `Reserve`, `PushBack`, `Back` and `PopBack`. `MeetsContracts(v, S, n)` states the header comments' promises for one vector: `reserve` and `push_back` either succeed as documented or leave the vector untouched; `remove_stable` keeps the order of the rest; `remove_fast` removes exactly the element at `index` and leaves those before it; `copy` gives `o`'s elements and capacity or leaves the vector untouched; `at` fails exactly past the end.

**SmartPtr.** Threads own `sp[t]` shared and `wp[t]` weak handles to one control block. Each atomic read-modify-write (`inc_strong`, `dec_strong`, `deinit`, `dec_weak`, `lock`) is its own action. `pc[t]` records where thread `t` is inside one of them.

**Ownership.** This model has one thread; the counts under concurrency are modelled in `SmartPtr`.

- The caller's `unique_ptr`, `shared_ptr` and `weak_ptr` variables are `uptr`, `sptr` and `wptr`.
- `ctl` maps each address that holds a `control_blk` to its `[data, strong, weak]`.
- `heap` is the set of addresses the allocator has handed out.
- `raw` holds the pointers that `release()` gave back to the caller.

The `control_blk` members (`deinit`, `inc_strong`, `dec_strong`, `dec_weak`) and the handle resets are pure operators on the state record. Each call is one action, including the temporary and the move assignment of `s = make_shared(...)` and `s = w.lock()`:

- `make_shared` and `make_unique`, including the array forms and the forms that adopt a pointer;
- copy, move, swap and reset;
- `lock` and `release`.

**LRU.** The map is instantiated by `M == INSTANCE UnorderedMap WITH ...` and the pool by `P == INSTANCE ObjectPool WITH ...`, over the cache's variables. The node fields `prev`, `next`, `key` and `val` are functions over the node blocks. There are three actions:

- `Get`: `get`/`get_ptr`
- `Put`
- `Reset`

Each action performs the whole call: the map call, the pool call, and the `take_node`/`push_front`/`pop_back` that follow. When a call dereferences a null node, the model sets `crashed`.

**AbstractLRU.** The state is a sequence of (key, value) pairs, most recently used first, and `ret`. `ret` is the last call as its caller sees it: the operation, the key and the result.

**PeriodicTask.** There are three threads: the owner, the worker and the notifier.

- The owner runs `start`, then the destructor: `SignalShutdown`, then `ShutdownNotify`, then `Join`.
- The worker loop of `priv_start` runs `SchedParams`, `CallBegin`/`CallEnd` (`m_call`), `Check` (the `m_shutdown` test under `m_mtx`), then `wait` or `wait_for`. It wakes through `Timeout`, `Spurious` or a notification, and then runs `Reacquire`.
- The notifier runs `Notify`, which stands for `notify_one`/`notify_all` or `NotificationObject`.

Every critical section on `m_mtx` only reads or writes `m_shutdown`. Each one is therefore a single step, and `wait` releases the lock in the same step that puts the worker to sleep. Two history variables support the properties:

- `unserved`: a notification arrived that no later `m_call` has served.
- `lateCalls`: the number of calls begun after shutdown.

**Allocator.** An owner runs `MMapInit` (mmap may fail, leaving `MAP_FAILED`), then `AllocInit` with capacity 0, below the arena minimum, or enough. It then runs `AllocUninit` and `MMapUninit`. Each client's `allocate`/`deallocate` takes the lock:

- `std::mutex`: `AcquireStd`.
- `SpinLock`: its `exchange` (`SpinExchange`) and its relaxed load loop (`SpinWait`).

Inside the lock the client runs the TLSF function and then `Release`s. The TLSF code is not under `src/`, so the arena is modelled from its documented contract: `make_arena`'s failure codes, NULL when exhausted, and `free(NULL)`. It is a free list of equal blocks with insertion at the head, as in spec §4.1. Each function reads the head in one step and writes it in the next, because that is where unsynchronised calls would interleave.

**AbstractAllocator.** This is what an allocator promises its callers, taken from the comments: the Allocator Concept (allocator.hpp:103–125), `RTAllocator::init`/`uninit` (184–207) and `rtl_tlsf_alloc` ("If it can not do this, then NULL is returned"). Its state is `ready`, `avail` (the free blocks), `owned` and `result`. `allocate` either takes a free block or, only when none is free, returns NULL. `deallocate` puts the block back. `Allocator` refines it through the mapping `ready <- ainit`, `avail <-` the blocks on the free list, `owned <- held`, and `result <- Result`. `Result` is "null" for a client that is between finding the list empty and releasing its lock. The lock and read steps map to stuttering steps. `TlsfAllocWrite`, `TlsfFreeWrite`, the NULL read, `AllocInit` and `AllocUninit` map to abstract steps.

## Runs

| Run | Expect | Shows |
|---|---|---|
| `ring` | pass | Every interleaving of producer and consumer delivers the stream in order (`StreamIntegrity`), and no slot is written while it is being read (`NoDataRace`). The producer never asks `write_bytes` for more than its last `approx_free_bytes()`. That value, the consumer's `approx_size()`, and an `empty()` of false stay on the safe side of the real size until that thread's next transfer (`ConservativeQueries`). The header only calls these queries "approximate". |
| `map` | pass | This run allows up to two allocation failures, at bucket vectors, the table's `m_buckets` and the tables themselves, so a table can come out short of buckets or empty. It uses `del` only in STABLE. `get` returns the last value put (`LookupAgrees`). `m_total_entries` is exact (`TotalEntriesAccurate`). Moved-out shells stay shadowed (`ShellsShadowed`). Buckets behind the cursor stay empty (`TransferBehindCursorEmpty`). `finalize`/`reserve` never loop forever (`DrainTerminates`), and every resize ends (`ResizeCompletes`, under weak fairness of `get`). |
| `map_del` | violation | `del` in TRANSFER deletes main's shell and leaves the value in secondary (map.hpp:860). |
| `map_value_fail` | violation | When a value allocation fails, the entry is removed without decrementing `total_entries`, and the transfer never completes (786). |
| `ownership` | pass | This run uses one injected allocation failure, four addresses, and two handles of each kind. Every allocation has exactly one owner, and no handle refers to freed memory, across failed factories, moves, resets, `release` and adoption (`OwnershipExact`). The counts follow `control_blk`'s counting algebra, and the payload is alive exactly while a `shared_ptr` exists (`CountsExact`). |
| `smartptr` | pass | Three threads copy, hand over, reset, make weak handles and `lock()`. The block is freed once, exactly when the last handle is gone (`ControlBlockLifetime`). |
| `smartptr_lock_race` | violation | `lock()` tests `expired()` and then increments. The last reset can destroy the payload in between, and `lock()` returns it (memory.hpp:774). |
| `pool` | pass | This run has allocation failures of slots and of the free vector, `set_elasticity(0)` and copied `Obj`s. A slot whose `Obj` was never copied is never handed out twice (`ExclusiveUnlessObjCopied`). Every slot lost is one dropped at a failed `push_back` (`LostOnlyOnFailedPush`): that is the only way `get`/`put` lose a slot, and the run reaches it. Every vector operation keeps its header contract, on every vector of up to three slot pointers and every free list the pool reaches, with and without an allocation failure (`VectorContractsHold`). This covers `remove_stable`, `copy` and `at`, which no library component calls. |
| `lru` | pass | This run allows one allocation failure at the map's `value`, `bucket` and `table` sites and the pool's `slot` and `vector` sites (not `buckets`: the constructor's table is the only one the locked map builds). The list is well formed. The map and the list agree. Every node is in exactly one of the list and the pool. `lru` refines `AbstractLRU` (`ImplementsAbstractLRU`, with `AbsCache` as the refinement mapping). |
| `lru_null_node` | violation | After failed refills, `m_pool.get()` returns null. `put` stores the null node in the map and `push_front` dereferences it (lru.hpp:282). |
| `task` | pass | This run uses timeouts 0 and 1 and sched params that may fail. The destructor's `join` always returns (`ShutdownCompletes`). `m_call` begins at most once after `m_shutdown` is set (`AtMostOneCallAfterShutdown`). With a timeout, a notification that finds the worker inside `m_call` is still served (`NotificationServed`). |
| `allocator` | pass | Three clients use both lock kinds, with mmap and init failures. The non-thread-safe arena is entered by one thread at a time (`ArenaExclusive`). While the allocator is initialized, each block is on the free list once or held by exactly one client (`BlockOwnership`). A waiter is eventually followed by some thread entering the arena (`LockProgress`). Every call takes effect atomically as the Allocator Concept describes, with NULL only when nothing is free (`ImplementsAllocatorConcept`, the refinement of `AbstractAllocator`). |

Each property of a passing run also has a mutant in `PROJECT.json`. The mutant is a plausible slip in the code that was modelled, and TLC finds that it breaks the property.

## Bounds and why they suffice

- **Ring buffer:** 4 bytes (3 writable) and 6 stream bytes. These let both indices wrap at least once and every size case occur: full, empty, wrapped, and exactly at the end.
- **Map:** three keys that collide in the 17-bucket table and in the 37-bucket table, with a load factor of 0.2. The third put starts a resize. `TransferBudget 1` makes a transfer span several calls, so get, put and del interleave with a half-done transfer. `reserve` is tried with 0 and 40. Two allocation failures are the fewest that leave a table short of buckets: `reserve`, then a reallocating `push_back`.
- **Vector:** every vector of at most three elements from two values, with each capacity from its size to 3. Indices run to one past the end, and `reserve` sizes to 4. This is enough for growth from 0, 1 and 2, a full and a non-full vector, removal at the front, in the middle and at the back, and a copy between any two of them, with and without a failure of `rval.reserve(o_cap)`. The loop's `push_back`s cannot fail, because `o_size <= o_cap` and `rval` never grows; the model shows this rather than assuming it.
- **Pool:** three slots, three handles, an initial count of 1 and elasticities 0, 1 and 2, one allocation failure at the slot or free-vector site. These cover refills from empty, partial refills after a failure, a `put` whose `push_back` fails, a refill by 0 slots, and copies.
- **SmartPtr:** three threads, each with at most two handles. This is enough for a lock to race a reset while a third thread holds a weak reference. The threads are symmetric.
- **PeriodicTask:** timeouts {0, 1}, sched params on or off, and `MaxLateCalls` 2. The bound of 2 is one above what `AtMostOneCallAfterShutdown` allows, so a second late call would be seen.
- **Allocator:** three clients and two blocks. A third client finds the arena empty (alloc returns NULL), and two clients can race for one head. The capacities are 0, 1 and 2 with a minimum of 2, so every early return of `init` happens.
- **Ownership:** four addresses are enough for two shared objects, each with its control block. With the addresses exhausted, or with one injected failure, each allocation of a factory can fail, including the payload allocation after the control block succeeded. Two handles of each kind allow copies, moves and swaps between distinct handles.
- **LRU:** capacity 3, so that a node can sit between head and tail; with capacity 2 the middle-unlink path is never taken. There are four keys (two share a bucket), so a new key evicts. There is one value: `ret` records the key and the operation, so a get that skips promotion is still visible. There are four node blocks, enough for a refill after a failed allocation. With load factor 5.0 and capacity 3, the constructor's reserve succeeds and locks the table, as it does in the code.

## Fairness

Three runs check liveness.

- **map:** it assumes weak fairness of `get`: a program that keeps using the map keeps calling it. Every call in TRANSFER advances the transfer, so `ResizeCompletes` asks whether the code finishes a resize that the caller keeps driving.
- **task:** weak fairness of the worker's steps, of the destructor's notify and of `join`. The OS runs a runnable thread, `m_call` returns, and `wait_for` times out. The owner need not start or destroy the task, the notifier need not notify, and spurious wakeups need not happen.
- **allocator:** weak fairness of each client's steps once it is inside a call. Neither `std::mutex` nor `SpinLock` promises that a particular waiter gets the lock, so `LockProgress` claims only that some thread gets in. Under this fairness TLC finds that a given spinner can starve.

No thread scheduling is assumed anywhere else.

## Deadlock checking

The passing runs below turn deadlock checking off:

- **map:** ERROR is absorbing, and once the map is in it every call returns without effect.
- **smartptr:** once the block is freed, no handle is left.
- **task:** after the destructor's `join` returns, nothing is left to run.
- **allocator:** after the owner unmaps the region, nothing is left to run.

The other runs check deadlock.

## Not modelled, and why

- **Lost notification without a timeout (task.hpp:278):** the worker waits with no predicate, so a notification made while `m_call` runs is lost. With `Timeouts = {0}`, TLC finds `unserved ~> served` violated. No run keeps this, because no document promises delivery; it is listed as a hazard.
- **`PeriodicTask`:** concurrent `start()` calls, which race on the non-atomic `m_started` (task.hpp:209), are not modelled. The header's use is a single owner thread, and two concurrent calls are a data race.
- **Ring buffer size queries from a third thread:** not modelled, because the class is SPSC. From a third thread, `approx_size()` can see the read index pass the write index it loaded earlier and report a full buffer.
- **Mutex wrappers:** `try_lock`, `NullMutex` (`RTAllocatorST`, single-threaded) and the slumber classes (used only by tests) are not modelled.
- **Allocator facade:** the moves, the destructor (which destroys `m_alloc` twice, allocator.hpp:149), and the read-only `is_initialized` are not modelled.
- **TLSF:** block splitting, merging and size classes are not modelled, because that code is not under `src/`. The other models still treat an allocation as success or an injected failure.
- **hash functions:** pure functions. The models take the hash as a constant chosen to force collisions.
- **Handles stored inside payloads:** for example `p = p->next`. The copy assignment resets before it reads `o` (memory.hpp:349), which would then read freed memory; this is listed as a hazard.
- **Moves and destructors of the containers:** not yet modelled. `vector`'s destructor and move operations only hand its buffer between objects and back to the allocator. `object_pool`'s move assignment is a bug: `m_vector = std::move(o.m_vector)` frees the target's free-list buffer but not the slots it points to. Added to `ObjectPool`, it loses the target's free slots with no allocation failing, which breaks `LostOnlyOnFailedPush` on the first move into a pool that has a free slot. `lru::operator=(lru&&)` pops every node into its pool first, then moves over that pool and leaks them all (object_pool.hpp:122, lru.hpp:141). The moved-from pool keeps a vector whose allocator is null. This is listed as a hazard.
- **`vector::operator==`, `operator[]`, `front`, `empty`, `capacity`, `get_buf`:** these are read-only. The contracts compare `es` directly.
- **Known bugs that no violation run keeps** (the run budget is spent): `object_pool::put` and `add_to_pool` ignore `push_back` failures, and the slot leaks although the caller put it back (236, 152; the header promises a leak only for pointers never put back, line 173). The `pool` run reaches these leaks, and `LostOnlyOnFailedPush` shows they are the only ones. `set_elasticity(0)` is unchecked (249), against line 85 and spec 4.5; after it `get()` on an empty pool returns null with no allocation failing. These are listed as hazards. So are three bugs that TLC finds at once but that no run keeps:

- In the wrapped case, `read()` copies `until_end_of_buffer` bytes into `output`, and `priv_write` reads that many from `input`. That is more than the caller passed (ring_buffer.cpp:167, 333).
- `write_bytes` stores `write_index + sz` after writing only `min(sz, space_left)` bytes (ring_buffer.cpp:100). The `ring` run asks only for what `approx_free_bytes()` reported, which always fits.
- `Obj`'s defaulted copy and move put the same slot twice (object_pool.hpp:68). `get()` then hands that slot to two users. The `pool` run keeps the copies; `ExclusiveUnlessObjCopied` exempts exactly the copied slots and shows no other path hands a slot out twice.

- **Unreachable through `lru`:** the map's TRANSFER-`del` bug. The `lru` constructor reserves and locks the table (lru.hpp:109–111), so its map never resizes.

## Plan for later work

1. Handles inside payloads, in `Ownership`.
2. Container moves and destructors: map and the allocator facade's moves (`std::lock` of two mutexes); the pool and lru moves leak (see above).
