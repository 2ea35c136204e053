----------------------------- MODULE ObjectPool -----------------------------
(***************************************************************************)
(* rtl::object_pool (src/librtlcpp/include/rtlcpp/object_pool.hpp): a     *)
(* free list (an rtl::vector<T*>, m_vector) of raw slots obtained from    *)
(* the allocator.  get() pops the back slot, refilling the vector with    *)
(* m_elasticity new slots when it is empty; put() destroys the object and *)
(* pushes the slot back; the RAII handle Obj calls put() from its         *)
(* destructor.                                                            *)
(*                                                                         *)
(* Slots are model values; the allocator hands out each at most once      *)
(* (unused holds the ones it still has).  The caller's handles are        *)
(* Handles: a handle is Unbound, or holds a slot (NoSlot when null),     *)
(* either as a raw pointer from get() or as an Obj from get_auto().       *)
(* The pool is used by one thread.                                        *)
(***************************************************************************)
EXTENDS Naturals, Sequences, SequencesExt, FiniteSets

CONSTANTS
  Slots,             \* memory blocks the allocator can hand out
  Handles,           \* the caller's pointer / Obj variables
  NoSlot,            \* model value: a null T*
  Unbound,           \* model value: a handle that holds nothing
  NumObjects,        \* num_objects passed to the constructor
  Elasticities,      \* values the caller passes to set_elasticity()
  AllocFailSites,    \* subset of {"slot", "vector"}
  MaxAllocFailures,  \* bound on injected allocation failures
  ObjCopies,         \* whether the caller copies or moves Obj values
  MaxFree            \* bound: length of the free vector (a slot put twice
                     \* makes it grow without limit)

VARIABLES
  free,        \* m_vector: the free slots, back = Last
  cap,         \* m_vector's capacity
  elasticity,  \* m_elasticity
  unused,      \* slots the allocator has not handed out
  failures,    \* injected allocation failures so far
  hold,        \* hold[h]: Unbound or [kind |-> "raw" | "obj", slot |-> slot or NoSlot]
  lastGet,     \* outcome of the last get(): "none", "object", "nullFailed", "null"
  lost,        \* history: slots dropped at a failed m_vector.push_back
  copied       \* history: slots of which an Obj was copied or moved

vars == <<free, cap, elasticity, unused, failures, hold, lastGet, lost, copied>>

CanFail(site, f) == site \in AllocFailSites /\ f < MaxAllocFailures

\* The allocator-facing part of the pool's state
Pool == [free |-> free, cap |-> cap, unused |-> unused, f |-> failures]

\* m_vector's operations, on the free list with the pool's failure count
Vec == INSTANCE Vector

VecOf(st) == [es |-> st.free, cap |-> st.cap]

WithVec(st, r) ==
  [ok |-> r.ok,
   st |-> [st EXCEPT !.free = r.v.es, !.cap = r.v.cap, !.f = IF r.failed THEN @ + 1 ELSE @]]

\* m_vector.reserve(n): outcomes [ok, st]
Reserve(st, n) ==
  {WithVec(st, r) : r \in Vec!Reserve(VecOf(st), n, CanFail("vector", st.f))}

\* m_vector.push_back(s): outcomes [ok, st]
PushBack(st, s) ==
  {WithVec(st, r) : r \in Vec!PushBack(VecOf(st), s, CanFail("vector", st.f))}

\* m_alloc->allocate(sizeof(T)): outcomes [ok, slot, st]
AllocSlot(st) ==
  (IF st.unused = {} THEN {}
   ELSE LET s == CHOOSE x \in st.unused : TRUE
        IN  {[ok |-> TRUE, slot |-> s, st |-> [st EXCEPT !.unused = @ \ {s}]]})
  \cup (IF st.unused = {} THEN {[ok |-> FALSE, slot |-> NoSlot, st |-> st]}
        ELSE IF CanFail("slot", st.f)
        THEN {[ok |-> FALSE, slot |-> NoSlot, st |-> [st EXCEPT !.f = @ + 1]]}
        ELSE {})

\* add_to_pool's loop from iteration i: outcomes [st, added, failed,
\* dropped], dropped holding the slot whose push_back failed
RECURSIVE AddLoop(_, _, _)
AddLoop(st, i, n) ==
  IF i >= n THEN {[st |-> st, added |-> n, failed |-> FALSE, dropped |-> {}]}
  ELSE UNION { IF ~a.ok THEN {[st |-> a.st, added |-> i, failed |-> TRUE, dropped |-> {}]}
               ELSE UNION { IF p.ok THEN AddLoop(p.st, i + 1, n)
                            ELSE {[st |-> p.st, added |-> i, failed |-> TRUE,
                                   dropped |-> {a.slot}]}
                            : p \in PushBack(a.st, a.slot) }
               : a \in AllocSlot(st) }

\* add_to_pool(n): m_vector.reserve(size + n) (result ignored), then the loop
AddToPool(st, n) ==
  UNION { AddLoop(r.st, 0, n) : r \in Reserve(st, Len(st.free) + n) }

Refill(st) ==
  IF st.free # <<>> THEN {[st |-> st, added |-> 1, failed |-> FALSE, dropped |-> {}]}
  ELSE AddToPool(st, elasticity)

\* Mutant: get() returns m_vector.back() without the pop_back()
GetSlotNoPop(st) ==
  { IF o.added < 1 THEN [st |-> o.st, slot |-> NoSlot, failed |-> o.failed, dropped |-> o.dropped]
    ELSE [st |-> o.st, slot |-> Vec!Back(VecOf(o.st)), failed |-> o.failed,
          dropped |-> o.dropped]
    : o \in Refill(st) }

\* get(): outcomes [st, slot, failed, dropped]
GetSlot(st) ==
  { IF o.added < 1 THEN [st |-> o.st, slot |-> NoSlot, failed |-> o.failed, dropped |-> o.dropped]
    ELSE [st |-> [o.st EXCEPT !.free = Vec!PopBack(VecOf(o.st)).es],
          slot |-> Vec!Back(VecOf(o.st)), failed |-> o.failed, dropped |-> o.dropped]
    : o \in Refill(st) }

\* Mutant: put() destroys the object but never pushes the slot back
PutSlotNoPush(st, s) == {st}

\* put(in): in->~T(); m_vector.push_back(in) (result ignored)
PutSlot(st, s) ==
  IF s = NoSlot THEN {st}
  ELSE {p.st : p \in PushBack(st, s)}

Become(st) ==
  /\ free' = st.free /\ cap' = st.cap /\ unused' = st.unused /\ failures' = st.f

GetOutcome(o) ==
  IF o.slot # NoSlot THEN "object" ELSE IF o.failed THEN "nullFailed" ELSE "null"

(***************************************************************************)
(* Operations                                                              *)
(***************************************************************************)

\* T* p = pool.get();  (kind "raw")  or  Obj o = pool.get_auto();  (kind "obj")
Get(h, kind) ==
  /\ hold[h] = Unbound
  /\ \E o \in GetSlot(Pool) :
       /\ Become(o.st)
       /\ hold' = [hold EXCEPT ![h] = [kind |-> kind, slot |-> o.slot]]
       /\ lastGet' = GetOutcome(o)
       /\ lost' = lost \cup o.dropped
  /\ UNCHANGED <<elasticity, copied>>

\* pool.put(p) on a raw pointer from get(), or ~Obj(): if (data) put(data)
Release(h) ==
  /\ hold[h] # Unbound
  /\ Len(free) < MaxFree
  /\ \E st \in PutSlot(Pool, hold[h].slot) :
       /\ Become(st)
       \* the only allocation put() makes is push_back's growth
       /\ lost' = IF st.f > failures THEN lost \cup {hold[h].slot} ELSE lost
  /\ hold' = [hold EXCEPT ![h] = Unbound]
  /\ UNCHANGED <<elasticity, lastGet, copied>>

\* Obj's defaulted copy or move constructor: the new Obj holds the same
\* data; the source keeps it too (data is T* const, so a move copies it)
CopyObj(h, h2) ==
  /\ ObjCopies
  /\ hold[h] # Unbound /\ hold[h].kind = "obj" /\ hold[h2] = Unbound
  /\ hold' = [hold EXCEPT ![h2] = hold[h]]
  /\ copied' = copied \cup ({hold[h].slot} \ {NoSlot})
  /\ UNCHANGED <<free, cap, elasticity, unused, failures, lastGet, lost>>

\* set_elasticity(e)
SetElasticity(e) ==
  /\ elasticity' = e
  /\ UNCHANGED <<free, cap, unused, failures, hold, lastGet, lost, copied>>

(***************************************************************************)
(* Specification                                                           *)
(***************************************************************************)

\* object_pool(alloc, NumObjects): elasticity 1, then add_to_pool(NumObjects)
Init ==
  /\ elasticity = 1
  /\ \E o \in AddToPool([free |-> <<>>, cap |-> 0, unused |-> Slots, f |-> 0], NumObjects) :
       /\ free = o.st.free /\ cap = o.st.cap
       /\ unused = o.st.unused /\ failures = o.st.f
       /\ lost = o.dropped
  /\ hold = [h \in Handles |-> Unbound]
  /\ lastGet = "none"
  /\ copied = {}

Next ==
  \/ \E h \in Handles :
       \/ Get(h, "raw") \/ Get(h, "obj")
       \/ Release(h)
       \/ \E h2 \in Handles : CopyObj(h, h2)
  \/ \E e \in Elasticities : SetElasticity(e)

Spec == Init /\ [][Next]_vars

(***************************************************************************)
(* Properties                                                              *)
(***************************************************************************)

Holders(s) == {h \in Handles : hold[h] # Unbound /\ hold[h].slot = s}

FreeCount(s) == Cardinality({i \in 1 .. Len(free) : free[i] = s})

TypeOK ==
  /\ free \in Seq(Slots) /\ cap \in Nat /\ Len(free) <= cap
  /\ elasticity \in Nat /\ unused \subseteq Slots
  /\ failures \in 0 .. MaxAllocFailures
  /\ \A h \in Handles : hold[h] = Unbound \/ hold[h].slot \in Slots \cup {NoSlot}
  /\ lost \subseteq Slots \ unused /\ copied \subseteq Slots \ unused

\* A slot is never handed out twice: unless an Obj holding it was copied
\* or moved (Obj's defaulted copy/move keeps data in both, and both
\* destructors put() it), a slot is held by at most one handle, is in the
\* free vector at most once, and never while a handle still uses it,
\* across refills, partial refills and failed push_backs.
ExclusiveUnlessObjCopied ==
  \A s \in Slots \ copied :
    /\ Cardinality(Holders(s)) <= 1
    /\ FreeCount(s) <= 1
    /\ FreeCount(s) = 1 => Holders(s) = {}

\* Every slot obtained from the allocator is in the free vector (which the
\* pool's destructor frees) or held by the caller, unless it was dropped at
\* a failed m_vector.push_back in add_to_pool (line 152) or put (line 236):
\* that is the only way get/put/get_auto/~Obj lose a slot, and it happens
\* although the caller put() every pointer back.
LostOnlyOnFailedPush ==
  \A s \in Slots \ unused : FreeCount(s) > 0 \/ Holders(s) # {} \/ s \in lost

=============================================================================
