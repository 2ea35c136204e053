------------------------------ MODULE SmartPtr ------------------------------
(***************************************************************************)
(* rtl::shared_ptr / rtl::weak_ptr over one control_blk                   *)
(* (src/librtlcpp/include/rtlcpp/memory.hpp).  The control block holds    *)
(* the payload pointer m_data and two std::atomic<uint32_t> counts: the   *)
(* strong count (shared_ptr owners) and the weak count (weak_ptr owners,  *)
(* plus one for the group of strong owners).                              *)
(*                                                                         *)
(* Several threads each own their own shared_ptr and weak_ptr objects     *)
(* (sp[t], wp[t] of them) that refer to the same control block, which is  *)
(* the use the library allows.  Every atomic read-modify-write is one     *)
(* step; a thread's program counter records where it is inside           *)
(* inc_strong / dec_strong / deinit / dec_weak / lock.                    *)
(***************************************************************************)
EXTENDS Naturals, FiniteSets

CONSTANTS
  Threads,   \* threads that own handles to the block
  MaxRefs    \* bound: handles (shared + weak) one thread may own at once

VARIABLES
  strong,        \* m_strong_count
  weak,          \* m_weak_count
  dataPtr,       \* m_data != nullptr
  destroyed,     \* number of times m_data->~T() + deallocate ran (history)
  blockFreed,    \* number of times the control block was deallocated (history)
  sp,            \* sp[t]: shared_ptr objects owned by thread t
  wp,            \* wp[t]: weak_ptr objects owned by thread t
  pc             \* pc[t]: where thread t is

vars == <<strong, weak, dataPtr, destroyed, blockFreed, sp, wp, pc>>

Owned(t) == sp[t] + wp[t]

Idle(t) == pc[t] = "idle"

Goto(t, l) == pc' = [pc EXCEPT ![t] = l]

(***************************************************************************)
(* Starting an operation on one of t's handles                             *)
(***************************************************************************)

\* shared_ptr copy constructor / copy assignment from a shared_ptr t owns:
\* inc_strong
CopyShared(t) ==
  /\ Idle(t) /\ sp[t] > 0 /\ Owned(t) < MaxRefs
  /\ Goto(t, "incStrong")
  /\ UNCHANGED <<strong, weak, dataPtr, destroyed, blockFreed, sp, wp>>

\* shared_ptr::reset (also the destructor): dec_strong
ResetShared(t) ==
  /\ Idle(t) /\ sp[t] > 0
  /\ sp' = [sp EXCEPT ![t] = @ - 1]
  /\ Goto(t, "decStrong")
  /\ UNCHANGED <<strong, weak, dataPtr, destroyed, blockFreed, wp>>

\* weak_ptr(shared_ptr const&) and weak_ptr copies: inc_weak, a single fetch_add
MakeWeak(t) ==
  /\ Idle(t) /\ sp[t] + wp[t] > 0 /\ Owned(t) < MaxRefs
  /\ weak' = weak + 1
  /\ wp' = [wp EXCEPT ![t] = @ + 1]
  /\ UNCHANGED <<strong, dataPtr, destroyed, blockFreed, sp, pc>>

\* Mutant: reset() does not null m_control_blk, so the handle stays owned
ResetWeakKeepsBlock(t) ==
  /\ Idle(t) /\ wp[t] > 0
  /\ Goto(t, "decWeak")
  /\ UNCHANGED <<strong, weak, dataPtr, destroyed, blockFreed, sp, wp>>

\* weak_ptr::reset (also the destructor): dec_weak
ResetWeak(t) ==
  /\ Idle(t) /\ wp[t] > 0
  /\ wp' = [wp EXCEPT ![t] = @ - 1]
  /\ Goto(t, "decWeak")
  /\ UNCHANGED <<strong, weak, dataPtr, destroyed, blockFreed, sp>>

\* weak_ptr::lock: "if (expired()) return shared_ptr();" - a load of the
\* strong count - then shared_ptr(m_alloc, m_control_blk), i.e. inc_strong
Lock(t) ==
  /\ Idle(t) /\ wp[t] > 0 /\ Owned(t) < MaxRefs
  /\ IF strong = 0 THEN UNCHANGED pc ELSE Goto(t, "incStrong")
  /\ UNCHANGED <<strong, weak, dataPtr, destroyed, blockFreed, sp, wp>>

(***************************************************************************)
(* control_blk steps                                                       *)
(***************************************************************************)

\* inc_strong: prev = m_strong_count.fetch_add(1); if prev == 0 also inc weak
IncStrong(t) ==
  /\ pc[t] = "incStrong"
  /\ strong' = strong + 1
  /\ IF strong = 0
     THEN Goto(t, "incWeakOfStrong") /\ UNCHANGED sp
     ELSE Goto(t, "idle") /\ sp' = [sp EXCEPT ![t] = @ + 1]
  /\ UNCHANGED <<weak, dataPtr, destroyed, blockFreed, wp>>

\* Mutant: inc_strong from 0 does not take the strong group's weak reference
IncWeakOfStrongSkipped(t) ==
  /\ pc[t] = "incWeakOfStrong"
  /\ sp' = [sp EXCEPT ![t] = @ + 1]
  /\ Goto(t, "idle")
  /\ UNCHANGED <<strong, weak, dataPtr, destroyed, blockFreed, wp>>

IncWeakOfStrong(t) ==
  /\ pc[t] = "incWeakOfStrong"
  /\ weak' = weak + 1
  /\ sp' = [sp EXCEPT ![t] = @ + 1]
  /\ Goto(t, "idle")
  /\ UNCHANGED <<strong, dataPtr, destroyed, blockFreed, wp>>

\* dec_strong: prev = m_strong_count.fetch_sub(1); if prev == 1 deinit()
\* then dec_weak()
DecStrong(t) ==
  /\ pc[t] = "decStrong"
  /\ strong' = strong - 1
  /\ Goto(t, IF strong = 1 THEN "deinit" ELSE "idle")
  /\ UNCHANGED <<weak, dataPtr, destroyed, blockFreed, sp, wp>>

\* deinit: if (!m_data) return; m_data->~T(); m_alloc->deallocate(m_data);
DeinitDestroy(t) ==
  /\ pc[t] = "deinit"
  /\ IF dataPtr
     THEN destroyed' = destroyed + 1 /\ Goto(t, "deinitNull")
     ELSE UNCHANGED destroyed /\ Goto(t, "decWeak")
  /\ UNCHANGED <<strong, weak, dataPtr, blockFreed, sp, wp>>

\* deinit: m_data = nullptr;
DeinitNull(t) ==
  /\ pc[t] = "deinitNull"
  /\ dataPtr' = FALSE
  /\ Goto(t, "decWeak")
  /\ UNCHANGED <<strong, weak, destroyed, blockFreed, sp, wp>>

\* dec_weak: prev = m_weak_count.fetch_sub(1); the caller deallocates the
\* control block when prev == 1
DecWeak(t) ==
  /\ pc[t] = "decWeak"
  /\ weak' = weak - 1
  /\ Goto(t, IF weak = 1 THEN "freeBlock" ELSE "idle")
  /\ UNCHANGED <<strong, dataPtr, destroyed, blockFreed, sp, wp>>

\* m_alloc->deallocate(m_control_blk)
FreeBlock(t) ==
  /\ pc[t] = "freeBlock"
  /\ blockFreed' = blockFreed + 1
  /\ Goto(t, "idle")
  /\ UNCHANGED <<strong, weak, dataPtr, destroyed, sp, wp>>

(***************************************************************************)
(* Specification                                                           *)
(***************************************************************************)

\* make_shared(alloc, ...) succeeded in one thread: control_blk(alloc, data)
\* with both counts 0, then shared_ptr(alloc, blk) -> inc_strong (1, 1)
Init ==
  \E t0 \in Threads :
    /\ strong = 1 /\ weak = 1
    /\ dataPtr = TRUE /\ destroyed = 0 /\ blockFreed = 0
    /\ sp = [t \in Threads |-> IF t = t0 THEN 1 ELSE 0]
    /\ wp = [t \in Threads |-> 0]
    /\ pc = [t \in Threads |-> "idle"]

\* A shared_ptr copy made by t and handed over to u (through whatever
\* synchronisation the program uses)
HandOver(t, u) ==
  /\ t # u /\ Idle(t) /\ Idle(u) /\ sp[t] > 0 /\ Owned(u) < MaxRefs
  /\ sp' = [sp EXCEPT ![t] = @ - 1, ![u] = @ + 1]
  /\ UNCHANGED <<strong, weak, dataPtr, destroyed, blockFreed, wp, pc>>

Step(t) ==
  \/ CopyShared(t) \/ ResetShared(t) \/ MakeWeak(t) \/ ResetWeak(t) \/ Lock(t)
  \/ IncStrong(t) \/ IncWeakOfStrong(t) \/ DecStrong(t)
  \/ DeinitDestroy(t) \/ DeinitNull(t) \/ DecWeak(t) \/ FreeBlock(t)
  \/ \E u \in Threads : HandOver(t, u)

Next == \E t \in Threads : Step(t)

Spec == Init /\ [][Next]_vars

(***************************************************************************)
(* Properties                                                              *)
(***************************************************************************)

Labels == {"idle", "incStrong", "incWeakOfStrong", "decStrong", "deinit",
           "deinitNull", "decWeak", "freeBlock"}

TypeOK ==
  /\ strong \in Nat /\ weak \in Nat
  /\ dataPtr \in BOOLEAN /\ destroyed \in Nat /\ blockFreed \in Nat
  /\ sp \in [Threads -> Nat] /\ wp \in [Threads -> Nat]
  /\ pc \in [Threads -> Labels]

\* Every thread that owns a shared_ptr can use the object: it has not been
\* destroyed and m_data still points to it (dec_strong destroys the payload
\* only when the last strong owner lets go).
PayloadAliveWhileShared == \A t \in Threads : sp[t] > 0 => destroyed = 0 /\ dataPtr

\* The control block is deallocated exactly when the last handle has gone:
\* never while a thread owns a handle or is still inside a count update,
\* never twice, and (no leak) once every handle is released and every
\* thread is idle.
ControlBlockLifetime ==
  /\ blockFreed <= 1
  /\ (blockFreed = 1) =
       \A t \in Threads : Idle(t) /\ sp[t] = 0 /\ wp[t] = 0

=============================================================================
