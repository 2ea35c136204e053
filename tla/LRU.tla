-------------------------------- MODULE LRU --------------------------------
(***************************************************************************)
(* rtl::lru (src/librtlcpp/include/rtlcpp/lru.hpp): an LRU cache built    *)
(* from an unordered_map<Key, LRUNode*> (m_map), an object_pool<LRUNode>  *)
(* (m_pool) and an intrusive doubly linked list of the cached nodes       *)
(* (m_head ... m_tail, most recently used first).  The map and the pool   *)
(* are the UnorderedMap and ObjectPool models, instantiated over the      *)
(* cache's variables; all three draw on one allocator, whose failures are *)
(* counted once.  The cache is used by one thread; a call is one step.    *)
(*                                                                         *)
(* A node is a model value of Nodes; the list's fields are functions over *)
(* Nodes.  A call that dereferences a null pointer sets crashed, after    *)
(* which the program has stopped.                                         *)
(***************************************************************************)
EXTENDS Naturals, Sequences, SequencesExt, FiniteSets

CONSTANTS
  Keys, Vals,
  NoKey, NoVal,          \* model values: a destroyed node's key and value;
                         \* NoVal is also the map's "no entry"
  Nodes,                 \* memory blocks the pool can hand out as LRUNodes
  NoNode,                \* model value: a null LRUNode*
  Capacity,              \* capacity passed to the constructor
  Hash,                  \* rtl::hash<Key>
  MaxLoadFactorPercent,  \* the map's load factor (default 5.0 -> 500)
  AllocFailSites,        \* subset of {"value", "bucket", "table", "slot", "vector"}
  MaxAllocFailures       \* bound on allocation failures in a behaviour

VARIABLES
  mstate, mmain, msec, mcur, mlocked,   \* m_map
  free, cap, unused,                    \* m_pool and the allocator's blocks
  failures,                             \* allocation failures so far
  head, tail, size,                     \* m_head, m_tail, m_size
  prev, next, key, val,                 \* the fields of each LRUNode
  ret,                                  \* the last call: [op, key, out]
  crashed                               \* a null pointer was dereferenced

vars == <<mstate, mmain, msec, mcur, mlocked, free, cap, unused, failures,
          head, tail, size, prev, next, key, val, ret, crashed>>

M == INSTANCE UnorderedMap
       WITH Vals <- Nodes \cup {NoNode}, TransferBudget <- 512,
            AllocFailSites <- AllocFailSites \cap {"value", "bucket", "table"},
            ReserveSizes <- {}, DelInTransfer <- TRUE,
            state <- mstate, main <- mmain, secondary <- msec, cursor <- mcur,
            locked <- mlocked, hung <- FALSE, dict <- [k \in Keys |-> NoVal]

P == INSTANCE ObjectPool
       WITH Slots <- Nodes, Handles <- {}, NoSlot <- NoNode, Unbound <- NoNode,
            NumObjects <- Capacity, Elasticities <- {1},
            AllocFailSites <- AllocFailSites \cap {"slot", "vector"},
            ObjCopies <- FALSE, MaxFree <- 0,
            elasticity <- 1, hold <- [h \in {} |-> NoNode], lastGet <- "none",
            lost <- {}, copied <- {}

MapRec == [st |-> mstate, main |-> mmain, sec |-> msec, cur |-> mcur, f |-> failures]

PoolAt(f) == [free |-> free, cap |-> cap, unused |-> unused, f |-> f]

\* A call as its caller sees it: operation, key passed, result
Call(op, k, out) == [op |-> op, key |-> k, out |-> out]

Lst == [head |-> head, tail |-> tail, size |-> size,
        prev |-> prev, next |-> next, key |-> key, val |-> val]

(***************************************************************************)
(* The list                                                                *)
(***************************************************************************)

\* Mutant: unlinking an inner node fixes prev's next but not next's prev
TakeNodeNoRelink(l, n) ==
  CASE l.size = 0 -> l
    [] l.size = 1 -> [l EXCEPT !.prev[n] = NoNode, !.next[n] = NoNode,
                               !.head = NoNode, !.tail = NoNode, !.size = 0]
    [] OTHER ->
       LET p == l.prev[n]
           x == l.next[n]
           l1 == [l EXCEPT !.prev[n] = NoNode, !.next[n] = NoNode, !.size = @ - 1]
       IN  IF n = l.head THEN [l1 EXCEPT !.head = x]
           ELSE IF n = l.tail THEN [l1 EXCEPT !.tail = p]
           ELSE [l1 EXCEPT !.next[p] = x]

\* take_node: unlink n.  The new head keeps its prev and the new tail its
\* next, as in the code.
TakeNode(l, n) ==
  CASE l.size = 0 -> l
    [] l.size = 1 -> [l EXCEPT !.prev[n] = NoNode, !.next[n] = NoNode,
                               !.head = NoNode, !.tail = NoNode, !.size = 0]
    [] OTHER ->
       LET p == l.prev[n]
           x == l.next[n]
           l1 == [l EXCEPT !.prev[n] = NoNode, !.next[n] = NoNode, !.size = @ - 1]
       IN  IF n = l.head THEN [l1 EXCEPT !.head = x]
           ELSE IF n = l.tail THEN [l1 EXCEPT !.tail = p]
           ELSE [l1 EXCEPT !.next[p] = x, !.prev[x] = p]

\* push_front: n becomes the head
PushFront(l, n) ==
  IF l.size = 0
  THEN [l EXCEPT !.head = n, !.tail = n, !.prev[n] = NoNode, !.next[n] = NoNode, !.size = 1]
  ELSE [l EXCEPT !.next[n] = l.head, !.prev[n] = NoNode, !.prev[l.head] = n,
                 !.head = n, !.size = @ + 1]

\* pop_back: unlink the tail; the outcome [l, node], node to be put back
PopBack(l) ==
  CASE l.size = 0 -> [l |-> l, node |-> NoNode]
    [] l.size = 1 -> [l |-> [l EXCEPT !.head = NoNode, !.tail = NoNode, !.size = 0],
                      node |-> l.head]
    [] OTHER -> [l |-> [l EXCEPT !.tail = l.prev[l.tail], !.next[l.prev[l.tail]] = NoNode,
                                 !.size = @ - 1],
                 node |-> l.tail]

\* LRUNode(key, val) constructed in a block handed out by the pool
Fill(l, n, k, v) ==
  [l EXCEPT !.key[n] = k, !.val[n] = v, !.prev[n] = NoNode, !.next[n] = NoNode]

\* ~LRUNode() run by the pool's put(): the fields are gone
Destroy(l, n) ==
  IF n = NoNode THEN l
  ELSE [l EXCEPT !.key[n] = NoKey, !.val[n] = NoVal, !.prev[n] = NoNode, !.next[n] = NoNode]

\* Mutant: get() returns the value without moving the node to the front
PromoteNoop(l, n) == l

\* get()/get_ptr() on a hit: take_node(node); push_front(node)
Promote(l, n) == PushFront(TakeNode(l, n), n)

\* Mutant: "m_size > m_capacity"
MustEvictOffByOne(sz) == sz > Capacity

\* put() of a new key evicts when "m_size == m_capacity"
MustEvict(sz) == sz = Capacity

\* Mutant: the evicted key is not removed from the map
EvictNoMapDel(r, l) ==
  LET pb == PopBack(l) IN {[r |-> r, l |-> pb.l, node |-> pb.node]}

\* Eviction: m_map.del(back()->key_ref()); pop_back();  outcomes [r, l, node]
Evict(r, l) ==
  LET pb == PopBack(l)
  IN  {[r |-> d.r, l |-> pb.l, node |-> pb.node] : d \in M!MapDel(r, l.key[l.tail])}

\* Mutant: a node whose map insertion failed is not given back
AbandonLeaks(st, n) == {st}

\* put() after m_map.put failed: m_pool.put(new_node)
Abandon(st, n) == P!PutSlot(st, n)

\* reset()'s loop "while (m_head) pop_back();": outcomes [l, st]
RECURSIVE PopAll(_, _)
PopAll(l, st) ==
  IF l.head = NoNode THEN {[l |-> l, st |-> st]}
  ELSE LET pb == PopBack(l)
       IN  UNION {PopAll(Destroy(pb.l, pb.node), s) : s \in P!PutSlot(st, pb.node)}

(***************************************************************************)
(* Operations                                                              *)
(***************************************************************************)

Commit(r, st, l) ==
  /\ mstate' = r.st /\ mmain' = r.main /\ msec' = r.sec /\ mcur' = r.cur
  /\ free' = st.free /\ cap' = st.cap /\ unused' = st.unused /\ failures' = st.f
  /\ head' = l.head /\ tail' = l.tail /\ size' = l.size
  /\ prev' = l.prev /\ next' = l.next /\ key' = l.key /\ val' = l.val

Crash ==
  /\ crashed' = TRUE
  /\ UNCHANGED <<mstate, mmain, msec, mcur, mlocked, free, cap, unused, failures,
                 head, tail, size, prev, next, key, val, ret>>

\* get(key, &out) / get_ptr(key): a hit moves the node to the front and
\* returns its value (out_var is copied between take_node and push_front)
Get(k) ==
  /\ ~crashed
  /\ \E g \in M!MapGet(MapRec, k) :
       IF g.val = NoVal
       THEN Commit(g.r, PoolAt(g.r.f), Lst) /\ ret' = Call("get", k, NoVal) /\ UNCHANGED crashed
       ELSE IF g.val = NoNode THEN Crash
       ELSE /\ Commit(g.r, PoolAt(g.r.f), Promote(Lst, g.val))
            /\ ret' = Call("get", k, val[g.val])
            /\ UNCHANGED crashed
  /\ UNCHANGED mlocked

\* put(key, val)
Put(k, v) ==
  /\ ~crashed
  /\ \E g \in M!MapGet(MapRec, k) :
       IF g.val # NoVal
       THEN \* the key is cached: overwrite the node and move it to the front
            IF g.val = NoNode THEN Crash
            ELSE LET l == TakeNode(Lst, g.val)
                 IN  /\ Commit(g.r, PoolAt(g.r.f),
                               PushFront([l EXCEPT !.key[g.val] = k, !.val[g.val] = v], g.val))
                     /\ ret' = Call("put", k, TRUE) /\ UNCHANGED crashed
       ELSE IF MustEvict(size) /\ tail = NoNode THEN Crash   \* back() is nullptr
       ELSE
       \E e \in IF MustEvict(size) THEN Evict(g.r, Lst)
                ELSE {[r |-> g.r, l |-> Lst, node |-> NoNode]} :
       \E st1 \in P!PutSlot(PoolAt(e.r.f), e.node) :
       \E o \in P!GetSlot(st1) :
         LET n == o.slot
             l1 == Destroy(e.l, e.node)
             l2 == IF n = NoNode THEN l1 ELSE Fill(l1, n, k, v)
         IN  \E mp \in M!MapPut([e.r EXCEPT !.f = o.st.f], k, n) :
               IF ~mp.ok
               THEN \E st2 \in Abandon([o.st EXCEPT !.f = mp.r.f], n) :
                      Commit(mp.r, st2, Destroy(l2, n)) /\ ret' = Call("put", k, FALSE) /\ UNCHANGED crashed
               ELSE IF n = NoNode THEN Crash              \* push_front(nullptr)
               ELSE /\ Commit(mp.r, [o.st EXCEPT !.f = mp.r.f], PushFront(l2, n))
                    /\ ret' = Call("put", k, TRUE) /\ UNCHANGED crashed
  /\ UNCHANGED mlocked

\* reset(): pop every node back into the pool, then m_map.delete_all_keys()
Reset ==
  /\ ~crashed
  /\ \E p \in PopAll(Lst, PoolAt(failures)) :
       Commit(M!MapDeleteAllKeys(MapRec), p.st, [p.l EXCEPT !.size = 0])
  /\ ret' = Call("reset", NoKey, NoVal)
  /\ UNCHANGED <<mlocked, crashed>>

(***************************************************************************)
(* Specification                                                           *)
(***************************************************************************)

\* lru(alloc, capacity): m_map(alloc), m_pool(alloc, capacity), then
\* "if (m_map.reserve(m_map.approx_buckets_needed(capacity)))
\*    m_map.lock_table_size();"
Init ==
  \E r0 \in M!NewMap(0) :
  \E p \in P!AddToPool([free |-> <<>>, cap |-> 0, unused |-> Nodes, f |-> r0.f], Capacity) :
  \E rs \in M!MapReserve([r0 EXCEPT !.f = p.st.f],
                         (Capacity * 100) \div MaxLoadFactorPercent + 1) :
    /\ mstate = rs.r.st /\ mmain = rs.r.main /\ msec = rs.r.sec /\ mcur = rs.r.cur
    /\ mlocked = rs.ok
    /\ free = p.st.free /\ cap = p.st.cap /\ unused = p.st.unused /\ failures = rs.r.f
    /\ head = NoNode /\ tail = NoNode /\ size = 0
    /\ prev = [n \in Nodes |-> NoNode] /\ next = [n \in Nodes |-> NoNode]
    /\ key = [n \in Nodes |-> NoKey] /\ val = [n \in Nodes |-> NoVal]
    /\ ret = Call("none", NoKey, NoVal)
    /\ crashed = FALSE

Next ==
  \/ \E k \in Keys : Get(k) \/ \E v \in Vals : Put(k, v)
  \/ Reset

Spec == Init /\ [][Next]_vars

(***************************************************************************)
(* Properties                                                              *)
(***************************************************************************)

\* The cached nodes in list order: size steps along next from m_head
RECURSIVE WalkFrom(_, _)
WalkFrom(n, i) == IF i = 0 \/ n = NoNode THEN <<>> ELSE Cons(n, WalkFrom(next[n], i - 1))

Order == WalkFrom(head, size)

InList(n) == \E i \in 1 .. Len(Order) : Order[i] = n

FreeCount(n) == Cardinality({i \in 1 .. Len(free) : free[i] = n})

\* What m_map maps k to (NoVal when absent or the map is in ERROR)
MapLookup(k) ==
  CASE mstate = "STABLE" -> M!TableGet(mmain, k)
    [] mstate = "TRANSFER" -> IF M!TableGet(msec, k) # NoVal THEN M!TableGet(msec, k)
                              ELSE M!TableGet(mmain, k)
    [] OTHER -> NoVal

TypeOK ==
  /\ size \in 0 .. Capacity
  /\ head \in Nodes \cup {NoNode} /\ tail \in Nodes \cup {NoNode}
  /\ prev \in [Nodes -> Nodes \cup {NoNode}] /\ next \in [Nodes -> Nodes \cup {NoNode}]
  /\ key \in [Nodes -> Keys \cup {NoKey}] /\ val \in [Nodes -> Vals \cup {NoVal}]
  /\ mstate \in {"ERROR", "STABLE", "TRANSFER"} /\ mlocked \in BOOLEAN
  /\ free \in Seq(Nodes) /\ unused \subseteq Nodes
  /\ failures \in 0 .. MaxAllocFailures
  /\ ret.out \in Vals \cup {NoVal, TRUE, FALSE} /\ crashed \in BOOLEAN

\* The list that take_node, push_front and pop_back maintain: m_size nodes,
\* all distinct, from m_head along next to m_tail, and each node's prev is
\* the node before it (pop_back follows m_tail->prev).
ListWellFormed ==
  /\ Len(Order) = size
  /\ IsInjective(Order)
  /\ (size = 0) = (head = NoNode) /\ (size = 0) = (tail = NoNode)
  /\ size > 0 => Order[size] = tail
  /\ \A i \in 2 .. size : prev[Order[i]] = Order[i - 1]

\* m_map and the list describe the same cache: a key is in the map exactly
\* when a listed node holds it, and the map points at that node (no map
\* entry left pointing at a node returned to the pool).
MapAgreesWithList ==
  /\ IsInjective([i \in 1 .. Len(Order) |-> key[Order[i]]])
  /\ \A k \in Keys :
       MapLookup(k) = IF \E i \in 1 .. Len(Order) : key[Order[i]] = k
                      THEN Order[CHOOSE i \in 1 .. Len(Order) : key[Order[i]] = k]
                      ELSE NoVal

\* Every node obtained from the allocator is in exactly one place: in the
\* list or (once) in the pool's free vector, never both, never neither.
NodeAccounting ==
  \A n \in Nodes \ unused : (IF InList(n) THEN 1 ELSE 0) + FreeCount(n) = 1

\* The program never dereferences a null node: not back() of an empty list
\* when m_size == m_capacity, not a null node from m_pool.get().
NoNullDereference == ~crashed

\* The cache seen through the list, most recently used first
AbsCache == [i \in 1 .. Len(Order) |-> [key |-> key[Order[i]], val |-> val[Order[i]]]]

A == INSTANCE AbstractLRU WITH cache <- AbsCache

\* lru implements the documented cache (AbstractLRU) under the mapping
\* above: every get, put and reset is a step of the abstract cache.
ImplementsAbstractLRU == A!Spec

====
