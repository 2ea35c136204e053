---------------------------- MODULE AbstractLRU ----------------------------
(***************************************************************************)
(* What rtl::lru (src/librtlcpp/include/rtlcpp/lru.hpp) promises its      *)
(* caller, stated from its documentation comments: a cache of at most     *)
(* Capacity key/value pairs ordered by use.                               *)
(*   - get(key): a hit returns the value and makes the entry the most     *)
(*     recently used; a miss returns false and leaves the cache alone.    *)
(*   - put(key, val): an existing key gets the new value and becomes the  *)
(*     most recently used; a new key is inserted as the most recently     *)
(*     used, evicting the least recently used entry when the cache is     *)
(*     full.  A put may fail (allocation); the documentation says only    *)
(*     that the value was not inserted, so the eviction that preceded the *)
(*     failure may have happened.                                         *)
(*   - reset(): empties the cache.                                        *)
(* ret is the last call as its caller sees it: the operation, the key it *)
(* passed and the result it got.                                         *)
(***************************************************************************)
EXTENDS Naturals, Sequences, SequencesExt

CONSTANTS Keys, Vals, NoKey, NoVal, Capacity

VARIABLES
  cache,  \* <<[key, val], ...>>, the most recently used first
  ret     \* [op, key, out]: out is a value or NoVal (get), TRUE/FALSE (put)

Pos(k) == SelectInSeq(cache, LAMBDA e : e.key = k)

\* The cache without its least recently used entry when it is full
MakeRoom == IF Len(cache) >= Capacity THEN SubSeq(cache, 1, Capacity - 1) ELSE cache

Call(op, k, out) == [op |-> op, key |-> k, out |-> out]

Get(k) ==
  IF Pos(k) = 0
  THEN cache' = cache /\ ret' = Call("get", k, NoVal)
  ELSE /\ cache' = Cons(cache[Pos(k)], RemoveAt(cache, Pos(k)))
       /\ ret' = Call("get", k, cache[Pos(k)].val)

Put(k, v) ==
  IF Pos(k) # 0
  THEN cache' = Cons([key |-> k, val |-> v], RemoveAt(cache, Pos(k))) /\ ret' = Call("put", k, TRUE)
  ELSE \/ cache' = Cons([key |-> k, val |-> v], MakeRoom) /\ ret' = Call("put", k, TRUE)
       \/ cache' \in {cache, MakeRoom} /\ ret' = Call("put", k, FALSE)

Reset == cache' = <<>> /\ ret' = Call("reset", NoKey, NoVal)

Init == cache = <<>> /\ ret = Call("none", NoKey, NoVal)

Next == \E k \in Keys : Get(k) \/ Reset \/ \E v \in Vals : Put(k, v)

Spec == Init /\ [][Next]_<<cache, ret>>

====
