------------------------------ MODULE Ownership ------------------------------
(***************************************************************************)
(* Who owns which allocation: rtl::unique_ptr, rtl::shared_ptr,           *)
(* rtl::weak_ptr, control_blk and the make_unique / make_shared factories *)
(* (src/librtlcpp/include/rtlcpp/memory.hpp) over one allocator.          *)
(*                                                                         *)
(* One thread (the counts under concurrency are the SmartPtr module's)    *)
(* owns a few handle variables of each type, and each call is one step.   *)
(* The allocator hands out addresses from Addrs and may fail; control     *)
(* blocks and payloads are both allocations.  The caller may also hold    *)
(* raw pointers: what unique_ptr::release() returned, which it can adopt  *)
(* again (make_unique / make_shared from a pointer) or deallocate itself. *)
(* Scalar and array forms differ only in the payload's size, except for   *)
(* make_unique<T[]>'s "if (count == 0U)" early return.                     *)
(***************************************************************************)
EXTENDS Naturals, FiniteSets

CONSTANTS
  Addrs,             \* the allocator's addresses
  Null,              \* model value: nullptr
  NoCtl,             \* model value: the address holds no control block
  UniqueSlots,       \* unique_ptr variables of the caller
  SharedSlots,       \* shared_ptr variables
  WeakSlots,         \* weak_ptr variables
  MaxAllocFailures   \* bound on injected allocation failures

VARIABLES
  heap,        \* addresses allocate() returned and deallocate() has not taken back
  ctl,         \* ctl[a]: the control_blk at a: [data, strong, weak], or NoCtl
  uptr,        \* uptr[u]: unique_ptr::m_data
  sptr,        \* sptr[s]: shared_ptr::m_control_blk
  wptr,        \* wptr[w]: weak_ptr::m_control_blk
  raw,         \* raw pointers the caller owns
  failures,    \* injected allocation failures so far
  doubleFree   \* deallocate() was called on an address not allocated (history)

vars == <<heap, ctl, uptr, sptr, wptr, raw, failures, doubleFree>>

Ptr == Addrs \cup {Null}
Block == [data : Ptr, strong : Nat, weak : Nat]

\* The whole state as a record: each call below is a function of it
S == [heap |-> heap, ctl |-> ctl, uptr |-> uptr, sptr |-> sptr, wptr |-> wptr,
      raw |-> raw, failures |-> failures, dbl |-> doubleFree]

Apply(st) ==
  /\ heap' = st.heap /\ ctl' = st.ctl /\ uptr' = st.uptr /\ sptr' = st.sptr
  /\ wptr' = st.wptr /\ raw' = st.raw /\ failures' = st.failures
  /\ doubleFree' = st.dbl

(***************************************************************************)
(* The allocator                                                           *)
(***************************************************************************)

\* alloc->allocate(sz): the set of [st, a] outcomes; a = Null when the
\* arena is exhausted or the allocation fails
Allocate(st) ==
  LET free == Addrs \ st.heap
  IN  (IF free = {} THEN {}
       ELSE LET a == CHOOSE x \in free : TRUE
            IN  {[st |-> [st EXCEPT !.heap = @ \cup {a}], a |-> a]})
      \cup
      (IF free = {} THEN {[st |-> st, a |-> Null]}
       ELSE IF st.failures < MaxAllocFailures
            THEN {[st |-> [st EXCEPT !.failures = @ + 1], a |-> Null]}
            ELSE {})

\* alloc->deallocate(p): freeing what is not allocated is a double free
Deallocate(st, a) ==
  IF a \in st.heap THEN [st EXCEPT !.heap = @ \ {a}] ELSE [st EXCEPT !.dbl = TRUE]

(***************************************************************************)
(* control_blk                                                             *)
(***************************************************************************)

\* deinit(): "if (!valid_data) return; m_data->~T(); ...
\* m_alloc->deallocate(m_data); m_data = nullptr;"
Deinit(st, c) ==
  LET d == st.ctl[c].data
  IN  IF d = Null THEN st
      ELSE [Deallocate(st, d) EXCEPT !.ctl[c].data = Null]

\* inc_strong(): fetch_add on the strong count; from 0 also inc the weak count
IncStrong(st, c) ==
  [st EXCEPT !.ctl[c].strong = @ + 1,
             !.ctl[c].weak = IF st.ctl[c].strong = 0 THEN @ + 1 ELSE @]

\* inc_weak()
IncWeak(st, c) == [st EXCEPT !.ctl[c].weak = @ + 1]

\* The control block is deallocated through the handle's m_alloc
FreeBlock(st, c) == [Deallocate(st, c) EXCEPT !.ctl[c] = NoCtl]

\* dec_weak(): fetch_sub; the block is to be freed when it was 1; the
\* handle's reset() then deallocates it
DecWeakAndFree(st, c) ==
  IF st.ctl[c].weak = 1
  THEN FreeBlock([st EXCEPT !.ctl[c].weak = 0], c)
  ELSE [st EXCEPT !.ctl[c].weak = @ - 1]

\* dec_strong(): fetch_sub; the last strong reference deinit()s the payload
\* and then gives up the strong group's weak reference
DecStrongAndFree(st, c) ==
  LET st1 == [st EXCEPT !.ctl[c].strong = @ - 1]
  IN  IF st.ctl[c].strong = 1 THEN DecWeakAndFree(Deinit(st1, c), c) ELSE st1

(***************************************************************************)
(* Handle resets (also the destructors and "= nullptr")                    *)
(***************************************************************************)

\* shared_ptr::reset(): "if (m_control_blk == nullptr) return;
\* if (m_control_blk->dec_strong()) m_alloc->deallocate(m_control_blk);
\* m_control_blk = nullptr;"
SharedReset(st, s) ==
  IF st.sptr[s] = Null THEN st
  ELSE [DecStrongAndFree(st, st.sptr[s]) EXCEPT !.sptr[s] = Null]

\* weak_ptr::reset(): the same with dec_weak()
WeakReset(st, w) ==
  IF st.wptr[w] = Null THEN st
  ELSE [DecWeakAndFree(st, st.wptr[w]) EXCEPT !.wptr[w] = Null]

\* unique_ptr::reset() (and unique_ptr<T[]>::reset()): "T* to_del =
\* release(); if (to_del == nullptr) return; to_del->~T();
\* if (m_alloc) m_alloc->deallocate(to_del);"
UniqueReset(st, u) ==
  IF st.uptr[u] = Null THEN st
  ELSE [Deallocate(st, st.uptr[u]) EXCEPT !.uptr[u] = Null]

(***************************************************************************)
(* Factories                                                               *)
(***************************************************************************)

\* "new (tmp) control_blk<T, Alloc>(alloc, data); return shared_ptr(alloc,
\* tmp);" - the constructor's inc_strong takes the counts from 0 to 1 and 1
NewShared(st, c, d) ==
  IncStrong([st EXCEPT !.ctl[c] = [data |-> d, strong |-> 0, weak |-> 0]], c)

\* The shared_ptr a make_shared call returns, with the state after it:
\* allocate the control block ("if (tmp == nullptr) return shared_ptr();"),
\* then - unless a pointer p is adopted - the payload, deallocating the
\* control block when that fails
MakeSharedOutcomes(st, p) ==
  UNION {IF r1.a = Null THEN {[st |-> r1.st, sp |-> Null]}
         ELSE IF p # Null
         THEN {[st |-> NewShared([r1.st EXCEPT !.raw = @ \ {p}], r1.a, p), sp |-> r1.a]}
         ELSE {IF r2.a = Null
               THEN [st |-> Deallocate(r2.st, r1.a), sp |-> Null]
               ELSE [st |-> NewShared(r2.st, r1.a, r2.a), sp |-> r1.a]
               : r2 \in Allocate(r1.st)}
         : r1 \in Allocate(st)}

\* Mutant: make_shared returns on a failed payload allocation without
\* deallocating the control block
MakeSharedLeaky(s) ==
  \E p \in raw \cup {Null} :
    \E r1 \in Allocate(S) :
      IF r1.a = Null \/ p # Null
      THEN \E r \in MakeSharedOutcomes(S, p) :
             Apply([SharedReset(r.st, s) EXCEPT !.sptr[s] = r.sp])
      ELSE \E r2 \in Allocate(r1.st) :
             IF r2.a = Null THEN Apply(SharedReset(r2.st, s))
             ELSE Apply([SharedReset(NewShared(r2.st, r1.a, r2.a), s) EXCEPT !.sptr[s] = r1.a])

\* s = make_shared<T>(alloc, ...) / make_shared<T[]>(alloc, count, ...),
\* with or without a pointer to adopt: the temporary is made first, then
\* the move assignment resets s and takes it over
MakeShared(s) ==
  \E p \in raw \cup {Null} :
    \E r \in MakeSharedOutcomes(S, p) :
      Apply([SharedReset(r.st, s) EXCEPT !.sptr[s] = r.sp])

\* u = make_unique<T>(alloc, ...): "T* tmp = alloc->allocate(sizeof(T));
\* if (tmp == nullptr) return unique_ptr();"; or make_unique<T>(alloc, ptr),
\* which adopts ptr
MakeUnique(u) ==
  \/ \E r \in Allocate(S) : Apply([UniqueReset(r.st, u) EXCEPT !.uptr[u] = r.a])
  \/ \E p \in raw :
       Apply([UniqueReset([S EXCEPT !.raw = @ \ {p}], u) EXCEPT !.uptr[u] = p])

\* u = make_unique<T[]>(alloc, count, ...): "if (count == 0U) return
\* unique_ptr();" before anything else - an adopted ptr stays the caller's
MakeUniqueArray(u) ==
  \E count \in {0, 1}, p \in raw \cup {Null} :
    IF count = 0
    THEN Apply([UniqueReset(S, u) EXCEPT !.uptr[u] = Null])
    ELSE IF p # Null
    THEN Apply([UniqueReset([S EXCEPT !.raw = @ \ {p}], u) EXCEPT !.uptr[u] = p])
    ELSE \E r \in Allocate(S) : Apply([UniqueReset(r.st, u) EXCEPT !.uptr[u] = r.a])

(***************************************************************************)
(* Handle operations                                                       *)
(***************************************************************************)

\* Reset of any handle: reset(), "= nullptr", or the end of its scope
Reset ==
  \/ \E u \in UniqueSlots : Apply(UniqueReset(S, u))
  \/ \E s \in SharedSlots : Apply(SharedReset(S, s))
  \/ \E w \in WeakSlots : Apply(WeakReset(S, w))

\* shared_ptr copy constructor / copy assignment "if (this != &o) {
\* reset(); m_alloc = o.m_alloc; m_control_blk = o.m_control_blk;
\* if (m_control_blk) m_control_blk->inc_strong(); }"
CopyShared(d, s) ==
  /\ d # s
  /\ LET st1 == SharedReset(S, d)
         c == sptr[s]
     IN  Apply(IF c = Null THEN st1 ELSE [IncStrong(st1, c) EXCEPT !.sptr[d] = c])

\* shared_ptr move assignment: "if (this != &o) { reset(); m_control_blk =
\* rtl::exchange(o.m_control_blk, nullptr); }"
MoveShared(d, s) ==
  /\ d # s
  /\ Apply([SharedReset(S, d) EXCEPT !.sptr[d] = sptr[s], !.sptr[s] = Null])

\* unique_ptr move assignment (both forms): reset(), then take o's pointer
MoveUnique(d, u) ==
  /\ d # u
  /\ Apply([UniqueReset(S, d) EXCEPT !.uptr[d] = uptr[u], !.uptr[u] = Null])

\* shared_ptr::swap
SwapShared(d, s) ==
  /\ d # s
  /\ sptr' = [sptr EXCEPT ![d] = sptr[s], ![s] = sptr[d]]
  /\ UNCHANGED <<heap, ctl, uptr, wptr, raw, failures, doubleFree>>

\* Mutant: weak_ptr = shared_ptr without the reset() of the old block
MakeWeakNoReset(w, s) ==
  LET c == sptr[s]
  IN  Apply(IF c = Null THEN [S EXCEPT !.wptr[w] = Null]
            ELSE [IncWeak(S, c) EXCEPT !.wptr[w] = c])

\* weak_ptr = shared_ptr: "reset(); ... m_control_blk = o.get_control_blk();
\* if (m_control_blk) m_control_blk->inc_weak();"
MakeWeak(w, s) ==
  LET st1 == WeakReset(S, w)
      c == sptr[s]
  IN  Apply(IF c = Null THEN st1 ELSE [IncWeak(st1, c) EXCEPT !.wptr[w] = c])

\* weak_ptr copy constructor / copy assignment "if (this != &o) { reset();
\* m_control_blk = o.m_control_blk; if (m_control_blk) inc_weak(); }"
CopyWeak(d, w) ==
  /\ d # w
  /\ LET st1 == WeakReset(S, d)
         c == wptr[w]
     IN  Apply(IF c = Null THEN st1 ELSE [IncWeak(st1, c) EXCEPT !.wptr[d] = c])

\* weak_ptr move assignment: "if (this != &o) { reset(); m_control_blk =
\* rtl::exchange(o.m_control_blk, nullptr); }"
MoveWeak(d, w) ==
  /\ d # w
  /\ Apply([WeakReset(S, d) EXCEPT !.wptr[d] = wptr[w], !.wptr[w] = Null])

\* Mutant: lock() without the expired() test
LockNoCheck(s, w) ==
  /\ wptr[w] # Null
  /\ LET st1 == IncStrong(S, wptr[w])
     IN  Apply([SharedReset(st1, s) EXCEPT !.sptr[s] = wptr[w]])

\* s = w.lock(): "if (expired()) return shared_ptr(); return
\* shared_ptr(m_alloc, m_control_blk);" - the temporary is made (and
\* inc_strong'd) before the assignment resets s
Lock(s, w) ==
  LET c == wptr[w]
  IN  IF c = Null \/ ctl[c].strong = 0
      THEN Apply(SharedReset(S, s))
      ELSE Apply([SharedReset(IncStrong(S, c), s) EXCEPT !.sptr[s] = c])

\* unique_ptr::release(): the pointer becomes the caller's
Release(u) ==
  /\ uptr[u] # Null
  /\ raw' = raw \cup {uptr[u]}
  /\ uptr' = [uptr EXCEPT ![u] = Null]
  /\ UNCHANGED <<heap, ctl, sptr, wptr, failures, doubleFree>>

\* The caller gives a released pointer back: alloc->deallocate(p)
FreeRaw ==
  \E p \in raw : Apply([Deallocate(S, p) EXCEPT !.raw = @ \ {p}])

(***************************************************************************)
(* Specification                                                           *)
(***************************************************************************)

\* Default-constructed handles, nothing allocated
Init ==
  /\ heap = {} /\ ctl = [a \in Addrs |-> NoCtl]
  /\ uptr = [u \in UniqueSlots |-> Null]
  /\ sptr = [s \in SharedSlots |-> Null]
  /\ wptr = [w \in WeakSlots |-> Null]
  /\ raw = {} /\ failures = 0 /\ doubleFree = FALSE

Next ==
  \/ \E s \in SharedSlots : MakeShared(s)
  \/ \E u \in UniqueSlots : MakeUnique(u) \/ MakeUniqueArray(u) \/ Release(u)
  \/ Reset
  \/ \E d, s \in SharedSlots : CopyShared(d, s) \/ MoveShared(d, s) \/ SwapShared(d, s)
  \/ \E d, u \in UniqueSlots : MoveUnique(d, u)
  \/ \E w \in WeakSlots, s \in SharedSlots : MakeWeak(w, s) \/ Lock(s, w)
  \/ \E d, w \in WeakSlots : CopyWeak(d, w) \/ MoveWeak(d, w)
  \/ FreeRaw

Spec == Init /\ [][Next]_vars

(***************************************************************************)
(* Properties                                                              *)
(***************************************************************************)

\* The variables' types; a handle's count is at most the handles there are
TypeOK ==
  /\ heap \subseteq Addrs /\ raw \subseteq Addrs
  /\ \A a \in Addrs :
       ctl[a] = NoCtl \/ (ctl[a] \in Block
                           /\ ctl[a].strong <= Cardinality(SharedSlots)
                           /\ ctl[a].weak <= Cardinality(WeakSlots) + 1)
  /\ uptr \in [UniqueSlots -> Ptr] /\ sptr \in [SharedSlots -> Ptr]
  /\ wptr \in [WeakSlots -> Ptr]
  /\ failures \in 0 .. MaxAllocFailures /\ doubleFree \in BOOLEAN

Blocks == {a \in Addrs : ctl[a] # NoCtl}

\* How many things own address a: unique_ptrs, the caller's raw pointers,
\* control blocks whose payload it is, and a itself being a control block
Owners(a) ==
  Cardinality({u \in UniqueSlots : uptr[u] = a})
  + (IF a \in raw THEN 1 ELSE 0)
  + Cardinality({c \in Blocks : ctl[c].data = a})
  + (IF a \in Blocks THEN 1 ELSE 0)

\* Every allocation has exactly one owner and nothing owns what is not
\* allocated: across failed make_shared / make_unique calls, moves,
\* resets, release() and adoption, no allocation leaks, none is freed twice,
\* and no handle refers to freed memory.
OwnershipExact ==
  /\ ~doubleFree
  /\ \A a \in Addrs : Owners(a) = (IF a \in heap THEN 1 ELSE 0)
  /\ \A s \in SharedSlots : sptr[s] # Null => sptr[s] \in Blocks
  /\ \A w \in WeakSlots : wptr[w] # Null => wptr[w] \in Blocks

\* The counting algebra of control_blk: the strong count is the number of
\* shared_ptrs to the block, the weak count the number of weak_ptrs plus
\* one while any shared_ptr exists, and the payload is alive exactly while
\* the strong count is not zero.
CountsExact ==
  \A c \in Blocks :
    /\ ctl[c].strong = Cardinality({s \in SharedSlots : sptr[s] = c})
    /\ ctl[c].weak = Cardinality({w \in WeakSlots : wptr[w] = c})
                     + (IF ctl[c].strong > 0 THEN 1 ELSE 0)
    /\ (ctl[c].data # Null) = (ctl[c].strong > 0)

====
