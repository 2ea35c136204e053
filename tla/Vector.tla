------------------------------- MODULE Vector -------------------------------
(***************************************************************************)
(* rtl::vector (src/librtlcpp/include/rtlcpp/vector.hpp) as values: a     *)
(* vector is a record [es, cap], es the sequence of the m_count elements  *)
(* in m_buf (es[i + 1] is m_buf[i]) and cap its m_capacity.  The vector   *)
(* is not thread-safe; each member function is one operator here, used by *)
(* the models of its clients: the hash map's buckets (UnorderedMap) and   *)
(* the object pool's free list (ObjectPool).                              *)
(*                                                                         *)
(* An operation that may allocate takes canFail, whether the allocator    *)
(* may return nullptr to this call, and gives the set of its outcomes     *)
(* [ok, v, failed]: ok is the function's result, v the vector after it,   *)
(* failed whether an allocation failed.                                   *)
(***************************************************************************)
EXTENDS Naturals, Sequences, SequencesExt, Bags

\* vector(alloc): m_buf nullptr, count and capacity 0
NewVector == [es |-> <<>>, cap |-> 0]

VSize(v) == Len(v.es)

Done(v) == [ok |-> TRUE, v |-> v, failed |-> FALSE]

Failed(v) == [ok |-> FALSE, v |-> v, failed |-> TRUE]

\* reserve's loop: for i = 0 .. count-1 the element idx = count-1-i of the
\* old buffer is move-constructed into new_buf[idx] (last element first)
RECURSIVE MoveInto(_, _, _)
MoveInto(old, newBuf, i) ==
  IF i >= Len(old) THEN newBuf
  ELSE LET idx == Len(old) - i
       IN  MoveInto(old, (idx :> old[idx]) @@ newBuf, i + 1)

\* vector::reserve(new_capacity): true without allocating when it is not
\* above the capacity; otherwise allocate, move the elements over,
\* deallocate the old buffer; a failed allocation returns false untouched
Reserve(v, n, canFail) ==
  IF n <= v.cap THEN {Done(v)}
  ELSE {Done([es |-> MoveInto(v.es, <<>>, 0), cap |-> n])}
       \cup (IF canFail THEN {Failed(v)} ELSE {})

\* push_back grows to 1 from an empty buffer, else doubles
GrowTo(v) == IF v.cap = 0 THEN 1 ELSE 2 * v.cap

\* Mutant: push_back constructs at m_buf + m_count without growing
PushBackNoGrow(v, x, canFail) == {Done([v EXCEPT !.es = Append(@, x)])}

\* vector::push_back(value) (the copy and the move overload): reserve when
\* full, then construct at m_buf + m_count and count one more
PushBack(v, x, canFail) ==
  LET grown == IF VSize(v) = v.cap THEN Reserve(v, GrowTo(v), canFail) ELSE {Done(v)}
  IN  { IF r.ok THEN [r EXCEPT !.v.es = Append(@, x)] ELSE r : r \in grown }

\* vector::pop_back: nothing when empty
PopBack(v) == IF v.es = <<>> THEN v ELSE [v EXCEPT !.es = Front(@)]

\* vector::back (undefined when empty)
Back(v) == Last(v.es)

\* vector::clear: destroy the elements, keep the buffer and capacity
Clear(v) == [v EXCEPT !.es = <<>>]

\* std::swap of the elements at positions i and j (1-based)
SwapAt(s, i, j) == [s EXCEPT ![i] = s[j], ![j] = s[i]]

\* vector::remove_fast(index): swap with back(), pop_back
RemoveFast(v, index) ==
  IF index >= VSize(v) THEN v
  ELSE PopBack([v EXCEPT !.es = SwapAt(@, index + 1, Len(@))])

\* Mutant: the swap loop stops one position early
RECURSIVE SwapForwardShort(_, _)
SwapForwardShort(s, current) ==
  IF current >= Len(s) - 2 THEN s
  ELSE SwapForwardShort(SwapAt(s, current + 1, current + 2), current + 1)

\* remove_stable's loop: for current = index .. count-2,
\* swap(m_buf[current], m_buf[current + 1])
RECURSIVE SwapForward(_, _)
SwapForward(s, current) ==
  IF current >= Len(s) - 1 THEN s
  ELSE SwapForward(SwapAt(s, current + 1, current + 2), current + 1)

\* vector::remove_stable(index): the last element is just popped; any other
\* is bubbled to the back and popped
RemoveStable(v, index) ==
  IF index >= VSize(v) THEN v
  ELSE IF index = VSize(v) - 1 THEN PopBack(v)
  ELSE PopBack([v EXCEPT !.es = SwapForward(@, index)])

\* copy's loop: rval.push_back(o_buf[i]) for i = 0 .. o_size-1, returning
\* at the first failure
RECURSIVE PushAll(_, _, _, _)
PushAll(rv, src, i, canFail) ==
  IF i > Len(src) THEN {Done(rv)}
  ELSE UNION { IF p.ok THEN PushAll(p.v, src, i + 1, canFail) ELSE {p}
               : p \in PushBack(rv, src[i], canFail) }

\* vector::copy(o): build rval (reserve(o_cap), push each element), then
\* *this = std::move(rval); on a failure rval's destructor frees what it
\* built and *this is untouched
Copy(v, o, canFail) ==
  UNION { IF ~r.ok THEN {r}
          ELSE { IF c.ok THEN c ELSE [c EXCEPT !.v = v] : c \in PushAll(r.v, o.es, 1, canFail) }
          : r \in { IF x.ok THEN x ELSE [x EXCEPT !.v = v] : x \in Reserve(NewVector, o.cap, canFail) } }

\* vector::at(out_var, index): the element, or false past the end
At(v, index) ==
  IF index >= VSize(v) THEN [ok |-> FALSE] ELSE [ok |-> TRUE, x |-> v.es[index + 1]]

(***************************************************************************)
(* The header's contracts, over every vector with elements from S, at     *)
(* most n of them and capacity at most n, and every index and value       *)
(***************************************************************************)
VectorsUpTo(S, n) ==
  UNION { {[es |-> s, cap |-> c] : c \in Len(s) .. n} : s \in BoundedSeq(S, n) }

\* reserve: true leaves the elements and at least new_capacity slots;
\* false leaves the vector untouched
ReserveMeetsContract(v, k) ==
  \A r \in Reserve(v, k, TRUE) :
    IF r.ok THEN r.v.es = v.es /\ r.v.cap >= k ELSE r.v = v

\* push_back: true appends value behind the elements; false touches nothing
PushBackMeetsContract(v, x) ==
  \A r \in PushBack(v, x, TRUE) :
    IF r.ok THEN r.v.es = Append(v.es, x) /\ VSize(r.v) <= r.v.cap ELSE r.v = v

\* remove_stable keeps the order of the others; remove_fast removes the
\* element at index and leaves those before it; both ignore a bad index
RemoveMeetsContract(v, i) ==
  IF i >= VSize(v) THEN RemoveStable(v, i) = v /\ RemoveFast(v, i) = v
  ELSE /\ RemoveStable(v, i).es = RemoveAt(v.es, i + 1)
       /\ ToBag(RemoveFast(v, i).es) = ToBag(v.es) (-) SetToBag({v.es[i + 1]})
       /\ SubSeq(RemoveFast(v, i).es, 1, i) = SubSeq(v.es, 1, i)

\* copy: true makes the vector equal to o (operator==) with o's capacity;
\* false leaves it untouched
CopyMeetsContract(v, o) ==
  \A c \in Copy(v, o, TRUE) :
    IF c.ok THEN c.v.es = o.es /\ c.v.cap = o.cap ELSE c.v = v

\* at: true exactly for an index inside the vector, with that element
AtMeetsContract(v, i) ==
  /\ At(v, i).ok <=> i < VSize(v)
  /\ At(v, i).ok => At(v, i).x = v.es[i + 1]

\* Every vector operation a client can call on v, with values from S,
\* indices and capacities up to n, and sources of copy with at most n
\* elements from S, keeps the promise its header comment makes, whether
\* or not the allocator fails.
MeetsContracts(v, S, n) ==
  /\ \A k \in 0 .. n + 1 : ReserveMeetsContract(v, k)
  /\ \A x \in S : PushBackMeetsContract(v, x)
  /\ \A i \in 0 .. n : RemoveMeetsContract(v, i) /\ AtMeetsContract(v, i)
  /\ \A o \in VectorsUpTo(S, n) : CopyMeetsContract(v, o)

VectorContracts(S, n) == \A v \in VectorsUpTo(S, n) : MeetsContracts(v, S, n)

=============================================================================
