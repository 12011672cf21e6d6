--------------------------- MODULE DescriptorTable ---------------------------
(***************************************************************************)
(* The file descriptor table of src/lsm-tree/src/descriptor_table.rs: per  *)
(* segment id a lazily filled pool of `concurrency` open descriptors, an   *)
(* LRU list of ids, and the global counter `size` kept against `limit`.    *)
(*                                                                         *)
(* Reader threads call access(id); other threads (flush, compaction)       *)
(* insert and remove segments.  access() takes the outer RwLock for        *)
(* reading; on an empty pool it drops it and takes it for writing to open  *)
(* the descriptors; on a non-empty pool it spins, still holding the read   *)
(* lock, until a compare-exchange of some is_used flag succeeds.  Every    *)
(* write-locked section is one action; a spinning reader is a thread in    *)
(* `readers`, which excludes all of them.                                  *)
(*                                                                         *)
(* A descriptor is a number; a pool is the set of descriptors in its Vec.  *)
(* An evicted or removed descriptor that a FileGuard still holds stays in  *)
(* `used` until the guard drops (the Arc keeps it alive).                  *)
(***************************************************************************)
EXTENDS Naturals, FiniteSets, Sequences, TLC

CONSTANTS
  Ids,           \* segment ids
  Threads,       \* reader threads calling access()
  Limit,         \* limit: the open-descriptor budget
  Concurrency,   \* concurrency: descriptors per pool
  MaxFds,        \* bound on descriptors ever opened
  NoFd

ASSUME Limit \in Nat /\ Concurrency \in Nat \ {0} /\ MaxFds \in Nat

Fds == 1..MaxFds

VARIABLES
  table,         \* id -> its pool (HashMap<Arc<str>, FileHandle>)
  lru,           \* LruList<Arc<str>>: least recently used first
  size,          \* the AtomicUsize counter of open descriptors
  used,          \* descriptors whose is_used flag is set
  nextFd,        \* the next descriptor File::open returns
  readers,       \* threads spinning with the outer read lock held
  pc,            \* per thread: "idle", "spin", "fill", "hold", "panicked"
  target,        \* the id a thread is accessing
  guard,         \* the descriptor a thread's FileGuard holds
  status,        \* per id: "new", "live", "removed" (segment lifecycle)
  poisoned       \* a panic while holding the write lock poisoned it

vars == <<table, lru, size, used, nextFd, readers, pc, target, guard,
          status, poisoned>>

(* The write lock is free: nobody spins under the read lock and no panic *)
(* poisoned it (every later lock() then panics with "lock is poisoned"). *)
WriteLockFree == readers = {} /\ ~poisoned

Init ==
  /\ table = [i \in {} |-> {}]
  /\ lru = <<>>
  /\ size = 0
  /\ used = {}
  /\ nextFd = 1
  /\ readers = {}
  /\ pc = [th \in Threads |-> "idle"]
  /\ target = [th \in Threads |-> CHOOSE i \in Ids : TRUE]
  /\ guard = [th \in Threads |-> NoFd]
  /\ status = [i \in Ids |-> "new"]
  /\ poisoned = FALSE

(* LruList::remove: retain every other item. *)
LruWithout(l, id) == SelectSeq(l, LAMBDA x : x # id)

(* LruList::refresh: remove, then push_back. *)
LruRefresh(l, id) == Append(LruWithout(l, id), id)

(* A map with one more key, or the same key overwritten. *)
WithEntry(f, k, v) == [x \in DOMAIN f \cup {k} |-> IF x = k THEN v ELSE f[x]]

(* A map without key k. *)
WithoutEntry(f, k) == [x \in DOMAIN f \ {k} |-> f[x]]

(* insert(): register the segment with an empty pool and refresh the LRU. *)
(* Segment ids are unique, so each id is inserted once.                    *)
Insert(id) ==
  /\ WriteLockFree
  /\ status[id] = "new"
  /\ table' = WithEntry(table, id, {})
  /\ lru' = LruRefresh(lru, id)
  /\ status' = [status EXCEPT ![id] = "live"]
  /\ UNCHANGED <<size, used, nextFd, readers, pc, target, guard, poisoned>>

(* Mutant: remove() subtracts `concurrency` whatever the pool holds. *)
RemoveSubtractingConcurrency(id) ==
  /\ WriteLockFree
  /\ status[id] = "live"
  /\ table' = WithoutEntry(table, id)
  /\ size' = size - Concurrency
  /\ lru' = LruWithout(lru, id)
  /\ status' = [status EXCEPT ![id] = "removed"]
  /\ UNCHANGED <<used, nextFd, readers, pc, target, guard, poisoned>>

(* remove(): drop the entry, subtract its pool's length, forget the id. *)
Remove(id) ==
  /\ WriteLockFree
  /\ status[id] = "live"
  /\ table' = WithoutEntry(table, id)
  /\ size' = size - Cardinality(table[id])
  /\ lru' = LruWithout(lru, id)
  /\ status' = [status EXCEPT ![id] = "removed"]
  /\ UNCHANGED <<used, nextFd, readers, pc, target, guard, poisoned>>

(* Room to open the descriptors of every fill in progress plus this one. *)
FdsInReserve ==
  nextFd - 1 + Concurrency * (1 + Cardinality({t \in Threads : pc[t] = "fill"}))
    <= MaxFds

(* access(), first half: read-lock, look the id up, read-lock its pool.   *)
(* An id no longer in the table fails expect("segment should be          *)
(* referenced") under the read lock (a panic that does not poison).  An   *)
(* empty pool drops both locks to go for the write lock; a non-empty one  *)
(* keeps them and spins.  Callers access segments they were given, i.e.   *)
(* ids that were inserted, possibly removed since by a compaction.        *)
AccessBegin(th, id) ==
  /\ pc[th] = "idle"
  /\ ~poisoned
  /\ status[id] # "new"
  /\ FdsInReserve
  /\ target' = [target EXCEPT ![th] = id]
  /\ CASE id \notin DOMAIN table ->
            /\ pc' = [pc EXCEPT ![th] = "panicked"]
            /\ UNCHANGED readers
       [] table[id] = {} ->
            /\ pc' = [pc EXCEPT ![th] = "fill"]
            /\ UNCHANGED readers
       [] OTHER ->
            /\ pc' = [pc EXCEPT ![th] = "spin"]
            /\ readers' = readers \cup {th}
  /\ UNCHANGED <<table, lru, size, used, nextFd, guard, status, poisoned>>

(* Mutant: a load-then-store instead of compare_exchange. *)
SpinAcquireNoCas(th) ==
  /\ pc[th] = "spin"
  /\ \E fd \in table[target[th]] :
       /\ used' = used \cup {fd}
       /\ guard' = [guard EXCEPT ![th] = fd]
  /\ pc' = [pc EXCEPT ![th] = "hold"]
  /\ readers' = readers \ {th}
  /\ UNCHANGED <<table, lru, size, nextFd, target, status, poisoned>>

(* One pass of the spin loop that succeeds: compare_exchange(false, true) *)
(* on a free descriptor of the pool; the locks are dropped on return.    *)
(* While every descriptor is in use the thread keeps spinning.           *)
SpinAcquire(th) ==
  /\ pc[th] = "spin"
  /\ \E fd \in table[target[th]] \ used :
       /\ used' = used \cup {fd}
       /\ guard' = [guard EXCEPT ![th] = fd]
  /\ pc' = [pc EXCEPT ![th] = "hold"]
  /\ readers' = readers \ {th}
  /\ UNCHANGED <<table, lru, size, nextFd, target, status, poisoned>>

(* LruList::get_least_recently_used: the front item, rotated to the back. *)
LruRotated(l) == IF l = <<>> THEN l ELSE Append(Tail(l), Head(l))

(* Mutant: eviction subtracts `concurrency` instead of the pool length. *)
EvictedSubtractingConcurrency(tbl, sz, sizeNow, id) ==
  IF sizeNow > Limit /\ lru # <<>> /\ Head(lru) # id /\ Head(lru) \in DOMAIN tbl
    THEN [table |-> [tbl EXCEPT ![Head(lru)] = {}], size |-> sz - Concurrency]
    ELSE [table |-> tbl, size |-> sz]

(* The eviction at the end of a fill: size_now is the counter before the *)
(* fetch_add plus one; if it exceeds the limit, the least recently used  *)
(* id (rotated to the back either way) loses its pool unless it is the   *)
(* id just filled.  Yields the new table and size.                       *)
Evicted(tbl, sz, sizeNow, id) ==
  IF sizeNow > Limit /\ lru # <<>> /\ Head(lru) # id /\ Head(lru) \in DOMAIN tbl
    THEN [table |-> [tbl EXCEPT ![Head(lru)] = {}],
          size |-> sz - Cardinality(tbl[Head(lru)])]
    ELSE [table |-> tbl, size |-> sz]

(* access(), second half, under the write lock.  The id is looked up      *)
(* again with expect("should exist"): if it was removed since the read    *)
(* lock was dropped, the thread panics holding the lock and poisons it.   *)
(* Otherwise `concurrency` descriptors are opened without checking        *)
(* whether another thread filled the pool meanwhile; the last is returned *)
(* in use.  A File::open error returns early, keeping the descriptors     *)
(* already pushed and leaving size untouched.                             *)
Fill(th) ==
  LET id == target[th]
      new(n) == nextFd .. nextFd + n - 1
  IN
  /\ pc[th] = "fill"
  /\ WriteLockFree
  /\ IF id \notin DOMAIN table
       THEN /\ poisoned' = TRUE
            /\ pc' = [pc EXCEPT ![th] = "panicked"]
            /\ UNCHANGED <<table, lru, size, used, nextFd, guard>>
       ELSE
         \/ \E n \in 0 .. Concurrency - 1 :
              /\ table' = [table EXCEPT ![id] = @ \cup new(n)]
              /\ nextFd' = nextFd + n
              /\ pc' = [pc EXCEPT ![th] = "idle"]
              /\ UNCHANGED <<lru, size, used, guard, poisoned>>
         \/ LET fd == nextFd + Concurrency - 1
                filled == [table EXCEPT ![id] = @ \cup new(Concurrency)]
                r == Evicted(filled, size + Concurrency, size + 1, id)
            IN  /\ table' = r.table
                /\ size' = r.size
                /\ lru' = IF size + 1 > Limit THEN LruRotated(lru) ELSE lru
                /\ nextFd' = nextFd + Concurrency
                /\ used' = used \cup {fd}
                /\ guard' = [guard EXCEPT ![th] = fd]
                /\ pc' = [pc EXCEPT ![th] = "hold"]
                /\ UNCHANGED poisoned
  /\ UNCHANGED <<readers, target, status>>

(* Mutant: the guard is dropped without clearing is_used. *)
ReleaseKeepingFlag(th) ==
  /\ pc[th] = "hold"
  /\ guard' = [guard EXCEPT ![th] = NoFd]
  /\ pc' = [pc EXCEPT ![th] = "idle"]
  /\ UNCHANGED <<table, lru, size, used, nextFd, readers, target, status, poisoned>>

(* FileGuard::drop: clear is_used. *)
Release(th) ==
  /\ pc[th] = "hold"
  /\ used' = used \ {guard[th]}
  /\ guard' = [guard EXCEPT ![th] = NoFd]
  /\ pc' = [pc EXCEPT ![th] = "idle"]
  /\ UNCHANGED <<table, lru, size, nextFd, readers, target, status, poisoned>>

(* clear(): drop every entry (closing the descriptors no guard holds).   *)
(* size and the LRU list are left as they were.  Called when the tree is *)
(* dropped; a cleared id is gone like a removed one.                      *)
Clear ==
  /\ WriteLockFree
  /\ table' = [i \in {} |-> {}]
  /\ status' = [i \in Ids |-> IF status[i] = "live" THEN "removed" ELSE status[i]]
  /\ UNCHANGED <<lru, size, used, nextFd, readers, pc, target, guard, poisoned>>

(* The table while the tree serves reads: everything but clear(). *)
ServingNext ==
  \/ \E id \in Ids : Insert(id) \/ Remove(id)
  \/ \E th \in Threads :
       \/ \E id \in Ids : AccessBegin(th, id)
       \/ SpinAcquire(th)
       \/ Fill(th)
       \/ Release(th)

Next == ServingNext \/ Clear

(* Readers that hold a guard eventually drop it (weak fairness); a thread *)
(* waiting for a lock or a free descriptor gets it if it is free          *)
(* infinitely often (strong fairness).  Inserting, removing and starting  *)
(* an access are up to the callers and not fair.                          *)
Fairness ==
  \A th \in Threads :
    /\ WF_vars(Release(th))
    /\ SF_vars(SpinAcquire(th))
    /\ SF_vars(Fill(th))

Spec == Init /\ [][Next]_vars
ServingSpec == Init /\ [][ServingNext]_vars /\ Fairness

-----------------------------------------------------------------------------

(* The total FileDescriptorTable::size counts: the descriptors in pools. *)
PooledFds == UNION {table[i] : i \in DOMAIN table}

TypeOK ==
  /\ DOMAIN table \subseteq Ids
  /\ \A i \in DOMAIN table : table[i] \subseteq Fds
  /\ lru \in Seq(Ids)
  /\ size \in Nat
  /\ used \subseteq Fds
  /\ nextFd \in 1 .. MaxFds + 1
  /\ readers \subseteq Threads
  /\ pc \in [Threads -> {"idle", "spin", "fill", "hold", "panicked"}]
  /\ target \in [Threads -> Ids]
  /\ guard \in [Threads -> Fds \cup {NoFd}]
  /\ status \in [Ids -> {"new", "live", "removed"}]
  /\ poisoned \in BOOLEAN

(* Exclusivity (spec property 7): no descriptor is held by two live        *)
(* FileGuards, across the spin loop's compare-exchange, racing fills of   *)
(* the same pool, and evictions that clear a pool whose descriptors are   *)
(* still held.                                                            *)
ExclusiveGuards ==
  \A a, b \in Threads :
    a # b /\ pc[a] = "hold" /\ pc[b] = "hold" => guard[a] # guard[b]

(* The counter is exact (spec 4.3): size equals the number of descriptors *)
(* in the pools, after fills, evictions and removals in any order.        *)
SizeMatchesPools ==
  size = Cardinality(PooledFds)

(* Every access returns: a thread that entered access() gets its guard or *)
(* an error, unless a panic poisoned the table.                           *)
AccessReturns ==
  \A th \in Threads :
    pc[th] \in {"spin", "fill"} ~> (pc[th] \in {"hold", "idle"} \/ poisoned)

(* Descriptor table budget (spec property 6): once no access is in       *)
(* progress, size() is at most limit.  It is about the eviction of a     *)
(* fill: size_now, the LRU rotation and the "oldest == id" skip.         *)
BudgetAtQuiescence ==
  (\A th \in Threads : pc[th] = "idle") => size <= Limit

(* The write-locked fill finds its entry again, as its expect("should     *)
(* exist") asserts, so no panic poisons the table lock.                   *)
NeverPoisoned == ~poisoned
=============================================================================
