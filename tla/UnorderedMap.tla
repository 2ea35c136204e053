---------------------------- MODULE UnorderedMap ----------------------------
(***************************************************************************)
(* rtl::unordered_map (src/librtlcpp/include/rtlcpp/map.hpp): a chained   *)
(* hash map over a main Table that grows by amortized resizing.  When the *)
(* load factor is reached a secondary Table of the next prime size is     *)
(* allocated (state TRANSFER) and every later get/put/del moves at most   *)
(* TransferBudget entries (512 in the code) from main to secondary,       *)
(* bucket by bucket from m_current_bucket_to_transfer.  When main holds   *)
(* no entries the secondary becomes main (state STABLE).  An allocation   *)
(* failure that the code cannot recover from puts the map in ERROR, where *)
(* every call returns without effect.                                     *)
(*                                                                         *)
(* A Table is a record: pow (m_power_of_2_size), nb (m_num_buckets),      *)
(* total (m_total_entries) and bk, the vector of Buckets; a Bucket is the *)
(* rtl::vector of Entries (es) with its capacity (cap, which governs when *)
(* push_back allocates).  An Entry is [key, val]; val = NoVal is an Entry *)
(* whose m_val is nullptr.  Each allocation may fail, at most             *)
(* MaxAllocFailures times in a behaviour, at the sites in AllocFailSites. *)
(* The caller is one thread: each call is one atomic step.               *)
(***************************************************************************)
EXTENDS Naturals, Sequences, SequencesExt, FiniteSets, TLC

CONSTANTS
  Keys,                  \* keys
  Vals,                  \* values
  NoVal,                 \* model value: m_val == nullptr
  Hash,                  \* rtl::hash<Key>, a function Keys -> Nat
  MaxLoadFactorPercent,  \* m_max_load_factor_percent
  TransferBudget,        \* number_of_keys_to_transfer (512 in the code)
  AllocFailSites,        \* subset of {"value", "bucket", "buckets", "table"}
  MaxAllocFailures,      \* bound on allocation failures in a behaviour
  ReserveSizes,          \* arguments tried for reserve()
  DelInTransfer          \* may the caller call del() while in TRANSFER

ASSUME Hash \in [Keys -> Nat]
ASSUME AllocFailSites \subseteq {"value", "bucket", "buckets", "table"}
ASSUME TransferBudget \in Nat \ {0}

VARIABLES
  state,      \* m_state
  main,       \* *m_main
  secondary,  \* *m_secondary (NoTable when nullptr)
  cursor,     \* m_current_bucket_to_transfer
  locked,     \* m_locked
  failures,   \* allocation failures so far
  hung,       \* a finalize()/reserve() loop that can never end was entered
  dict        \* the caller's view: the value of the last successful put per
              \* key, NoVal after a successful del (history variable)

vars == <<state, main, secondary, cursor, locked, failures, hung, dict>>

(***************************************************************************)
(* utility.hpp: power_of_two_primes / get_prime_power_of_2                 *)
(***************************************************************************)
PowerOfTwoPrimes ==
  <<2, 2, 5, 11, 17, 37, 67, 131, 257, 521, 1031, 2053, 4099, 8209, 16411,
    32771, 65537, 131101, 262147, 524309, 1048583, 2097169, 4194319, 8388617,
    16777259, 33554467, 67108879, 134217757, 268435459, 536870923,
    1073741827>>

\* The last entry, 2147483659 (power 31), exceeds TLC's integers; the models
\* never grow a table that far, and evaluating it stops the run.
GetPrimePowerOf2(n) ==
  IF n >= 32 THEN 0
  ELSE IF n = 31 THEN Assert(FALSE, "power_of_two_primes[31] is beyond TLC integers")
  ELSE PowerOfTwoPrimes[n + 1]

CanFail(site, f) == site \in AllocFailSites /\ f < MaxAllocFailures

(***************************************************************************)
(* Table                                                                   *)
(***************************************************************************)

\* m_buckets and each Bucket's m_entries are rtl::vectors
Vec == INSTANCE Vector

\* The sizes below num at which push_back into an empty m_buckets
\* reallocates (count = capacity: 0, 1, 2, 4, ... by vector's growth)
RECURSIVE Reallocations(_, _)
Reallocations(c, num) ==
  IF c >= num THEN {}
  ELSE {c} \cup Reallocations(Vec!GrowTo([es |-> <<>>, cap |-> c]), num)

\* Table::expand(num): m_buckets.reserve(num), whose result is ignored,
\* then a push_back of an empty Bucket per bucket, returning how many were
\* pushed when one fails.  After a successful reserve no push_back
\* allocates; after a failed one each reallocation may fail too.  The
\* outcomes [n, f]: buckets pushed, allocation failures so far.
Expand(num, f) ==
  {[n |-> num, f |-> f]}
  \cup (IF CanFail("buckets", f)
        THEN {[n |-> num, f |-> f + 1]}
             \cup (IF CanFail("buckets", f + 1)
                   THEN {[n |-> c, f |-> f + 2] : c \in Reallocations(0, num)}
                   ELSE {})
        ELSE {})

\* Table(alloc, initial_power_of_2): power clamped to [4, 31], then
\* m_num_buckets = expand(prime), possibly fewer than the prime; the
\* outcomes [t, f]
NewTable(p, f) ==
  LET pow == IF p >= 32 THEN 31 ELSE IF p < 4 THEN 4 ELSE p
  IN  { [t |-> [pow |-> pow, nb |-> e.n, total |-> 0,
                bk |-> [b \in 0 .. e.n - 1 |-> Vec!NewVector]],
         f |-> e.f]
        : e \in Expand(GetPrimePowerOf2(pow), f) }

NoTable == [pow |-> 0, nb |-> 0, total |-> 0, bk |-> <<>>]

\* Table::get_bucket_index
BucketIndex(t, k) == Hash[k] % t.nb

\* Index of the Entry with key k in the bucket (0 if none)
EntryPos(es, k) == SelectInSeq(es, LAMBDA e : e.key = k)

\* Table::get / Bucket::get: the value pointer of k's entry
TableGet(t, k) ==
  IF t.nb = 0 THEN NoVal
  ELSE LET es == t.bk[BucketIndex(t, k)].es
           i == EntryPos(es, k)
       IN  IF i = 0 THEN NoVal ELSE es[i].val

HasEntry(t, k) == t.nb # 0 /\ EntryPos(t.bk[BucketIndex(t, k)].es, k) # 0

\* Assign m_val of k's (existing) entry
SetVal(t, k, v) ==
  LET b == BucketIndex(t, k)
  IN  [t EXCEPT !.bk[b].es[EntryPos(t.bk[b].es, k)].val = v]


\* Bucket::bucket_get_or_create_entry + Table::table_get_or_create_entry:
\* the set of outcomes [t, ok, created, f]; push_back reallocates (and may
\* fail) only when the bucket vector is full.
GetOrCreate(t, k, f) ==
  IF t.nb = 0 THEN {[t |-> t, ok |-> FALSE, created |-> FALSE, f |-> f]}
  ELSE
  LET b == BucketIndex(t, k)
  IN  IF EntryPos(t.bk[b].es, k) # 0
      THEN {[t |-> t, ok |-> TRUE, created |-> FALSE, f |-> f]}
      ELSE { IF p.ok
             THEN [t |-> [t EXCEPT !.bk[b] = p.v, !.total = @ + 1],
                   ok |-> TRUE, created |-> TRUE, f |-> f]
             ELSE [t |-> t, ok |-> FALSE, created |-> FALSE, f |-> f + 1]
             : p \in Vec!PushBack(t.bk[b], [key |-> k, val |-> NoVal], CanFail("bucket", f)) }

\* Bucket::bucket_remove: deconstruct, then vector::remove_fast (swap the
\* entry with the back, pop_back).  m_total_entries is not touched.
BucketRemove(t, k) ==
  LET b == BucketIndex(t, k)
      i == EntryPos(t.bk[b].es, k)
  IN  IF t.nb = 0 \/ i = 0 THEN t
      ELSE [t EXCEPT !.bk[b] = Vec!RemoveFast(@, i - 1)]

\* Mutant: m_total_entries is not decremented on a successful delete
TableDelNoCount(t, k) ==
  IF HasEntry(t, k)
  THEN [t |-> BucketRemove(t, k), ok |-> TRUE]
  ELSE [t |-> t, ok |-> FALSE]

\* Mutant: m_total_entries is decremented even when nothing was removed
TableDelAlwaysCount(t, k) ==
  IF HasEntry(t, k)
  THEN [t |-> [BucketRemove(t, k) EXCEPT !.total = @ - 1], ok |-> TRUE]
  ELSE [t |-> [t EXCEPT !.total = @ - 1], ok |-> FALSE]

\* Table::del: the outcome [t, ok]
TableDel(t, k) ==
  IF HasEntry(t, k)
  THEN [t |-> [BucketRemove(t, k) EXCEPT !.total = @ - 1], ok |-> TRUE]
  ELSE [t |-> t, ok |-> FALSE]

\* Entry::construct: assign over an existing value, or allocate (may fail)
Construct(t, k, v, f) ==
  {[t |-> SetVal(t, k, v), ok |-> TRUE, f |-> f]}
  \cup (IF TableGet(t, k) = NoVal /\ CanFail("value", f)
        THEN {[t |-> t, ok |-> FALSE, f |-> f + 1]} ELSE {})

\* Table::table_delete_all_entries: clear() keeps each vector's capacity
DeleteAllEntries(t) ==
  [t EXCEPT !.total = 0, !.bk = [b \in DOMAIN t.bk |-> Vec!Clear(t.bk[b])]]

(***************************************************************************)
(* The map's tables and transfer cursor as one record                      *)
(***************************************************************************)
Cur == [st |-> state, main |-> main, sec |-> secondary, cur |-> cursor, f |-> failures]

Become(r) ==
  /\ state' = r.st /\ main' = r.main /\ secondary' = r.sec
  /\ cursor' = r.cur /\ failures' = r.f

\* Mutant: main's entry is moved over secondary's even when secondary
\* already had the key
MoveBackAlways(r, g, e) ==
  [r EXCEPT !.sec = SetVal(g.t, e.key, e.val),
            !.main = [@ EXCEPT !.bk[r.cur].es = Front(@), !.total = @ - 1],
            !.f = g.f]

\* Mutant: main's m_total_entries is not decremented by the transfer
MoveBackNoCount(r, g, e) ==
  [r EXCEPT !.sec = IF g.created THEN SetVal(g.t, e.key, e.val) ELSE g.t,
            !.main = [@ EXCEPT !.bk[r.cur].es = Front(@)],
            !.f = g.f]

\* One iteration of perform_partial_transfer's inner loop on the back entry e
\* of the cursor's bucket, after get_or_create in secondary gave g
MoveBack(r, g, e) ==
  [r EXCEPT !.sec = IF g.created THEN SetVal(g.t, e.key, e.val) ELSE g.t,
            !.main = [@ EXCEPT !.bk[r.cur] = Vec!PopBack(@), !.total = @ - 1],
            !.f = g.f]

\* Mutant: the cursor moves on when the budget runs out mid-bucket
RECURSIVE PartialTransferFromSkip(_, _)
PartialTransferFromSkip(r, budget) ==
  IF r.cur >= r.main.nb THEN {[ok |-> TRUE, r |-> r]}
  ELSE IF r.main.bk[r.cur].es = <<>>
  THEN PartialTransferFromSkip([r EXCEPT !.cur = @ + 1], budget)
  ELSE IF budget = 0 THEN {[ok |-> TRUE, r |-> [r EXCEPT !.cur = @ + 1]]}
  ELSE LET e == Last(r.main.bk[r.cur].es)
       IN  UNION { IF g.ok THEN PartialTransferFromSkip(MoveBack(r, g, e), budget - 1)
                   ELSE {[ok |-> FALSE, r |-> [r EXCEPT !.f = g.f]]}
                   : g \in GetOrCreate(r.sec, e.key, r.f) }

\* perform_partial_transfer: the set of outcomes [ok, r]
RECURSIVE PartialTransferFrom(_, _)
PartialTransferFrom(r, budget) ==
  IF r.cur >= r.main.nb THEN {[ok |-> TRUE, r |-> r]}
  ELSE IF r.main.bk[r.cur].es = <<>>
  THEN PartialTransferFrom([r EXCEPT !.cur = @ + 1], budget)
  ELSE IF budget = 0 THEN {[ok |-> TRUE, r |-> r]}
  ELSE LET e == Vec!Back(r.main.bk[r.cur])
       IN  UNION { IF g.ok THEN PartialTransferFrom(MoveBack(r, g, e), budget - 1)
                   ELSE {[ok |-> FALSE, r |-> [r EXCEPT !.f = g.f]]}
                   : g \in GetOrCreate(r.sec, e.key, r.f) }

PartialTransfer(r) == PartialTransferFrom(r, TransferBudget)


\* end_resize: secondary becomes main
EndResize(r) == [r EXCEPT !.st = "STABLE", !.main = r.sec, !.sec = NoTable, !.cur = 0]

\* should_resize (the map is STABLE)
ShouldResize(r) ==
  /\ ~locked
  /\ r.main.total >= (MaxLoadFactorPercent * r.main.nb) \div 100

\* begin_resize: allocate and construct the secondary Table; a failed
\* allocation, or an expand() that got fewer buckets than the prime, fails
BeginResize(r, p) ==
  { IF GetPrimePowerOf2(p) = o.t.nb
    THEN [ok |-> TRUE, r |-> [r EXCEPT !.st = "TRANSFER", !.sec = o.t, !.cur = 0, !.f = o.f]]
    ELSE [ok |-> FALSE, r |-> [r EXCEPT !.f = o.f]]
    : o \in NewTable(p, r.f) }
  \cup (IF CanFail("table", r.f) THEN {[ok |-> FALSE, r |-> [r EXCEPT !.f = @ + 1]]} ELSE {})

\* The tail of get/put/del in STABLE: resize if the load factor is reached;
\* a failed begin_resize sets ERROR
AfterStable(r) ==
  IF ShouldResize(r)
  THEN {IF o.ok THEN o.r ELSE [o.r EXCEPT !.st = "ERROR"] : o \in BeginResize(r, r.main.pow + 1)}
  ELSE {r}

\* Mutant: the call never ends the resize itself
AfterTransferNoEnd(r) ==
  { IF ~o.ok THEN [o.r EXCEPT !.st = "ERROR"] ELSE o.r : o \in PartialTransfer(r) }

\* The tail of get/put/del in TRANSFER: a partial transfer (ERROR if it
\* fails), then end_resize if main is empty
AfterTransfer(r) ==
  { IF ~o.ok THEN [o.r EXCEPT !.st = "ERROR"]
    ELSE IF o.r.main.total = 0 THEN EndResize(o.r) ELSE o.r
    : o \in PartialTransfer(r) }

\* put, STABLE branch (map.hpp 700-731): outcomes [r, ok]
PutStable(r, k, v) ==
  UNION { IF ~g.ok THEN {[r |-> [r EXCEPT !.main = g.t, !.f = g.f], ok |-> FALSE]}
          ELSE { [r |-> [r EXCEPT !.main = IF c.ok \/ ~g.created THEN c.t
                                             ELSE BucketRemove(c.t, k),
                                  !.f = c.f],
                  ok |-> c.ok]
                 : c \in Construct(g.t, k, v, g.f) }
          : g \in GetOrCreate(r.main, k, r.f) }

\* Mutant: a new secondary entry does not take over main's entry
PutTransferNoMove(r, k, v) ==
  UNION { IF ~g.ok THEN {[r |-> [r EXCEPT !.sec = g.t, !.f = g.f], ok |-> FALSE]}
          ELSE { [r |-> [r EXCEPT !.sec = IF c.ok \/ ~g.created THEN c.t
                                          ELSE BucketRemove(SetVal(c.t, k, NoVal), k),
                                  !.f = c.f],
                  ok |-> c.ok]
                 : c \in Construct(g.t, k, v, g.f) }
          : g \in GetOrCreate(r.sec, k, r.f) }

\* put, TRANSFER branch (map.hpp 746-795): a newly created secondary entry
\* takes over main's entry (main keeps a "shell" whose m_val is nullptr),
\* then the value is constructed; on failure a created entry is un-seeded
\* and removed
PutTransfer(r, k, v) ==
  UNION { IF ~g.ok THEN {[r |-> [r EXCEPT !.sec = g.t, !.f = g.f], ok |-> FALSE]}
          ELSE LET moved == g.created /\ HasEntry(r.main, k)
                   sec1 == IF moved THEN SetVal(g.t, k, TableGet(r.main, k)) ELSE g.t
                   main1 == IF moved THEN SetVal(r.main, k, NoVal) ELSE r.main
               IN  { [r |-> [r EXCEPT !.main = main1,
                                      !.sec = IF c.ok \/ ~g.created THEN c.t
                                              ELSE BucketRemove(SetVal(c.t, k, NoVal), k),
                                      !.f = c.f],
                      ok |-> c.ok]
                     : c \in Construct(sec1, k, v, g.f) }
          : g \in GetOrCreate(r.sec, k, r.f) }

\* del, STABLE branch: outcome [r, ok]
DelStable(r, k) ==
  LET d == TableDel(r.main, k)
  IN  [r |-> [r EXCEPT !.main = d.t], ok |-> d.ok]

\* del, TRANSFER branch (map.hpp 860-865): main first, secondary only if
\* main had no entry for the key
DelTransfer(r, k) ==
  LET d1 == TableDel(r.main, k)
      d2 == TableDel(r.sec, k)
  IN  IF d1.ok THEN [r |-> [r EXCEPT !.main = d1.t], ok |-> TRUE]
      ELSE [r |-> [r EXCEPT !.sec = d2.t], ok |-> d2.ok]

\* The loop "while (!is_transfer_complete()) perform_partial_transfer()" of
\* finalize and reserve: outcomes [res, r] with res "done", "failed" (a
\* partial transfer returned false), or "hang" (an iteration changed
\* nothing, so the loop never ends)
RECURSIVE Drain(_)
Drain(r) ==
  IF r.main.total = 0 THEN {[res |-> "done", r |-> r]}
  ELSE UNION { IF ~o.ok THEN {[res |-> "failed", r |-> o.r]}
               ELSE IF o.r = r THEN {[res |-> "hang", r |-> r]}
               ELSE Drain(o.r)
               : o \in PartialTransfer(r) }

\* After the loop: end_resize when done
Finish(d) ==
  IF d.res = "done" THEN [r |-> EndResize(d.r), hang |-> FALSE]
  ELSE [r |-> d.r, hang |-> d.res = "hang"]

\* reserve's loop: the first power i < 32 whose prime is >= n, else 250
RECURSIVE FirstPowerFrom(_, _)
FirstPowerFrom(n, i) ==
  IF i >= 32 THEN 250
  ELSE IF GetPrimePowerOf2(i) >= n THEN i
  ELSE FirstPowerFrom(n, i + 1)

NextPowerOf2(n) == FirstPowerFrom(n, 0)

\* The tail of a call that began in state st: STABLE resizes when due,
\* TRANSFER moves the transfer on
AfterCall(st, r) == IF st = "STABLE" THEN AfterStable(r) ELSE AfterTransfer(r)

\* get(key) from r: outcomes [r, val] (val NoVal for nullptr); main and
\* secondary are read before the call's tail, which may end in ERROR
MapGet(r, k) ==
  IF r.st = "ERROR" THEN {[r |-> r, val |-> NoVal]}
  ELSE LET v == IF r.st = "TRANSFER" /\ TableGet(r.sec, k) # NoVal
                THEN TableGet(r.sec, k) ELSE TableGet(r.main, k)
       IN  {[r |-> a, val |-> IF a.st = "ERROR" THEN NoVal ELSE v] : a \in AfterCall(r.st, r)}

\* put(key, val) from r: outcomes [r, ok]
MapPut(r, k, v) ==
  IF r.st = "ERROR" THEN {[r |-> r, ok |-> FALSE]}
  ELSE UNION { {[r |-> a, ok |-> p.ok /\ a.st # "ERROR"] : a \in AfterCall(r.st, p.r)}
               : p \in IF r.st = "STABLE" THEN PutStable(r, k, v) ELSE PutTransfer(r, k, v) }

\* del(key) from r: outcomes [r, ok]
MapDel(r, k) ==
  IF r.st = "ERROR" THEN {[r |-> r, ok |-> FALSE]}
  ELSE LET d == IF r.st = "STABLE" THEN DelStable(r, k) ELSE DelTransfer(r, k)
       IN  {[r |-> a, ok |-> d.ok /\ a.st # "ERROR"] : a \in AfterCall(r.st, d.r)}

(***************************************************************************)
(* Operations: one action per public call.  In ERROR every call returns   *)
(* without effect, so no action is enabled there.                         *)
(***************************************************************************)

Live == state # "ERROR" /\ ~hung

\* get(key): reads do not change the map; the call's tail may resize
Get(k) ==
  /\ Live
  /\ \E o \in MapGet(Cur, k) : Become(o.r)
  /\ UNCHANGED <<locked, hung, dict>>

\* put(key, val)
Put(k, v) ==
  /\ Live
  /\ \E o \in MapPut(Cur, k, v) :
       /\ Become(o.r)
       /\ dict' = IF o.ok THEN [dict EXCEPT ![k] = v] ELSE dict
  /\ UNCHANGED <<locked, hung>>

\* del(key)
Del(k) ==
  /\ Live
  /\ DelInTransfer \/ state = "STABLE"
  /\ \E o \in MapDel(Cur, k) :
       /\ Become(o.r)
       /\ dict' = IF o.ok THEN [dict EXCEPT ![k] = NoVal] ELSE dict
  /\ UNCHANGED <<locked, hung>>

\* delete_all_keys() from r: in TRANSFER both tables are emptied and
\* finalize() then finds the transfer complete
MapDeleteAllKeys(r) ==
  CASE r.st = "STABLE" -> [r EXCEPT !.main = DeleteAllEntries(r.main)]
    [] r.st = "TRANSFER" -> EndResize([r EXCEPT !.main = DeleteAllEntries(r.main),
                                                !.sec = DeleteAllEntries(r.sec)])
    [] OTHER -> r

\* reserve(number_of_buckets) from r: outcomes [r, hang, ok]; a pending
\* transfer is drained first, then a complete resize to the first prime
\* >= n is begun (ERROR if that fails) and drained
MapReserve(r, n) ==
  LET np == NextPowerOf2(n)
      Done(d) == [r |-> Finish(d).r, hang |-> Finish(d).hang, ok |-> d.res = "done"]
      pre == IF r.st = "TRANSFER" THEN {Done(d) : d \in Drain(r)}
             ELSE {[r |-> r, hang |-> FALSE, ok |-> TRUE]}
  IN  IF r.st = "ERROR" \/ n = 0 \/ np = 250 THEN {[r |-> r, hang |-> FALSE, ok |-> FALSE]}
      ELSE UNION { IF ~p.ok \/ np <= p.r.main.pow THEN {p}
                   ELSE UNION { IF ~b.ok
                                THEN {[r |-> [b.r EXCEPT !.st = "ERROR"], hang |-> FALSE, ok |-> FALSE]}
                                ELSE {Done(d) : d \in Drain(b.r)}
                                : b \in BeginResize(p.r, np) }
                   : p \in pre }

\* The constructor with f allocation failures so far: main = new
\* Table(alloc) (power 4), kept whatever expand() got, or ERROR when the
\* Table's allocation fails
NewMap(f) ==
  {[st |-> "STABLE", main |-> o.t, sec |-> NoTable, cur |-> 0, f |-> o.f] : o \in NewTable(4, f)}
  \cup (IF CanFail("table", f)
        THEN {[st |-> "ERROR", main |-> NoTable, sec |-> NoTable, cur |-> 0, f |-> f + 1]}
        ELSE {})

DeleteAllKeys ==
  /\ Live
  /\ Become(MapDeleteAllKeys(Cur))
  /\ dict' = [k \in Keys |-> NoVal]
  /\ UNCHANGED <<locked, hung>>

\* finalize(): completes a transfer in progress (STABLE: returns true)
Finalize ==
  /\ Live
  /\ state = "TRANSFER"
  /\ \E d \in Drain(Cur) :
       LET o == Finish(d) IN Become(o.r) /\ hung' = o.hang
  /\ UNCHANGED <<locked, dict>>

Reserve(n) ==
  /\ Live
  /\ \E o \in MapReserve(Cur, n) : Become(o.r) /\ hung' = o.hang
  /\ UNCHANGED <<locked, dict>>

\* lock_table_size() / unlock_table_size()
LockTableSize   == ~hung /\ ~locked /\ locked' = TRUE
                   /\ UNCHANGED <<state, main, secondary, cursor, failures, hung, dict>>
UnlockTableSize == ~hung /\ locked /\ locked' = FALSE
                   /\ UNCHANGED <<state, main, secondary, cursor, failures, hung, dict>>

(***************************************************************************)
(* Specification                                                           *)
(***************************************************************************)

Init ==
  /\ \E r \in NewMap(0) :
       state = r.st /\ main = r.main /\ secondary = r.sec /\ cursor = r.cur /\ failures = r.f
  /\ locked = FALSE
  /\ hung = FALSE
  /\ dict = [k \in Keys |-> NoVal]

Next ==
  \/ \E k \in Keys : Get(k) \/ Del(k) \/ \E v \in Vals : Put(k, v)
  \/ DeleteAllKeys
  \/ Finalize
  \/ \E n \in ReserveSizes : Reserve(n)
  \/ LockTableSize
  \/ UnlockTableSize

\* The caller keeps calling get(): each call in TRANSFER moves the transfer on
Fairness == WF_vars(\E k \in Keys : Get(k))

Spec == Init /\ [][Next]_vars /\ Fairness

(***************************************************************************)
(* Properties                                                              *)
(***************************************************************************)

LiveTables == IF state = "TRANSFER" THEN {main, secondary}
              ELSE IF state = "STABLE" THEN {main} ELSE {}

Entries(t) == UNION {{<<b, i>> : i \in 1 .. Len(t.bk[b].es)} : b \in DOMAIN t.bk}
EntryAt(t, p) == t.bk[p[1]].es[p[2]]

TypeOK ==
  /\ state \in {"ERROR", "STABLE", "TRANSFER"}
  /\ \A t \in LiveTables :
       /\ t.pow \in 4 .. 31 /\ t.total \in Nat
       /\ \A p \in Entries(t) : EntryAt(t, p).key \in Keys
                                /\ EntryAt(t, p).val \in Vals \cup {NoVal}
  /\ failures \in 0 .. MaxAllocFailures
  /\ dict \in [Keys -> Vals \cup {NoVal}]
  /\ locked \in BOOLEAN /\ hung \in BOOLEAN

\* The value get()/contains() would return for k (secondary first in TRANSFER)
Lookup(k) ==
  IF state = "TRANSFER" /\ TableGet(secondary, k) # NoVal
  THEN TableGet(secondary, k) ELSE TableGet(main, k)

\* Map semantics across resizes: unless the map is in ERROR, get(k) returns
\* the value of the last put(k, v) that returned true, and nothing after a
\* del(k) that returned true or delete_all_keys().
LookupAgrees == state # "ERROR" => \A k \in Keys : Lookup(k) = dict[k]

\* m_total_entries of every live Table equals the number of entries in its
\* buckets (is_transfer_complete and should_resize both trust it).
TotalEntriesAccurate == \A t \in LiveTables : t.total = Cardinality(Entries(t))

\* During TRANSFER a main entry is a shell (m_val nullptr, left behind by a
\* put that moved it) exactly when secondary holds the key with a value:
\* the value lives in one table only, and the transfer may discard shells.
ShellsShadowed ==
  state = "TRANSFER" =>
    \A p \in Entries(main) :
      (EntryAt(main, p).val = NoVal) = (TableGet(secondary, EntryAt(main, p).key) # NoVal)

\* perform_partial_transfer never leaves entries behind the cursor: every
\* main bucket below m_current_bucket_to_transfer is empty.
TransferBehindCursorEmpty ==
  state = "TRANSFER" => \A b \in 0 .. cursor - 1 : main.bk[b].es = <<>>

\* finalize() and reserve() return: their transfer loop always ends.
DrainTerminates == ~hung

\* Amortized resizing completes: a map in TRANSFER returns to STABLE (or
\* ERROR) as long as the caller keeps calling get().
ResizeCompletes == state = "TRANSFER" ~> state # "TRANSFER"

=============================================================================
