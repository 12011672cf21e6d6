# TLA+ models of fjall's write path and concurrency core

This directory holds TLA+ models of the parts of fjall that `spec.md` calls
the concurrency core. Each model is checked with TLC. The code is the Rust
under `src/`:

| part | source | what it is |
|---|---|---|
| snapshot tracker | `src/src/snapshot_tracker.rs` | refcount per open read instant (DashMap) and the GC watermark `lowest_freed_instant` |
| oracle | `src/src/tx/oracle.rs` | `with_commit`: the serialised commit section of optimistic transactions |
| transaction layer | not under `src/` (spec 4.5, 5) | begin (instant + snapshot open), `ConflictChecker`, the apply closure |
| file descriptor table | `src/lsm-tree/src/descriptor_table.rs` | per-segment pools of open files, LRU list, global `size` vs `limit` |
| memtable | `src/lsm-tree/src/memtable/mod.rs`, `src/src/memtable/mod.rs` | SkipMap of internal keys; `get`, `insert`, `get_next_seqno` / `get_lsn` |
| monitor | `src/fjall/src/monitor.rs` | `run()`, called on a cadence: journal and write-buffer pressure lead to memtable rotations |
| segment writer | `src/src/segment/writer.rs` | `Writer` (blocks + index) and `MultiWriter` (a run of segments) |
| segment metadata | `src/src/segment/meta.rs` | `Metadata::from_writer`, `key_range_contains`, JSON file I/O |
| segment id | `src/src/id.rs` | `to_base36` (`generate_segment_id` formats a clock reading and a random number with it) |
| prefix iterator | `src/src/prefix.rs` | merge of segment, immutable and active memtable prefix scans |
| config, errors | `src/src/config.rs`, `src/src/error.rs` | builder with argument assertions; error enum |

## How the parts interact

A transaction takes its read instant from the keyspace seqno counter and
opens it in the snapshot tracker. At commit, `Oracle::with_commit` takes
`write_serialize_lock`. It then:

1. checks the transaction's reads against the committed writers recorded
   at timestamps `>= instant + 1`;
2. closes the snapshot, and the close runs `gc` when the instant is a
   multiple of `safety_gap`;
3. prunes the committed log at or below the new watermark;
4. runs the write batch;
5. records the transaction's conflict checker at `seqno.get()`.

So the tracker's watermark decides which writers the oracle still knows
about. This is why one model, `Oracle`, composes both: `Oracle` EXTENDS
`SnapshotTracker`, and the tracker's operations are operators that the
oracle's actions apply.

Reads go through the memtable, then through segments. Each segment read
takes a descriptor from the descriptor table. Flush and compaction insert
and remove segments concurrently with those reads. The monitor rotates
memtables. The flush workers (not under `src/`) turn rotated memtables into
segments through the segment writer.

## Modules

### SnapshotTracker.tla

It models `snapshot_tracker.rs`.

- **State.** `data` is the DashMap, a function whose domain is the set of
  instants present. `lowestFreed` is `lowest_freed_instant`.
- **`OpenedData`.** This is `open`: `and_modify(+1).or_insert(1)`.
- **`ClosedOutcomes`.** This is `close`: decrement, then `gc` when
  `seqno % safety_gap = 0`.
- **`GcOutcomes`.** This is `gc`, built from:
  - `Retained`: the `retain` predicate;
  - `LowestRetainedOutcomes`: a RECURSIVE operator giving the value of the
    `lowest_retained` fold for every DashMap visiting order;
  - `FreedAfter`: the final `match` with `saturating_sub`.
- **Wrap-around.** `watermark - safety_gap` is computed as the release
  build does it, wrapping modulo `SeqNoModulus`.
- **Nondeterminism.** Close returns every possible outcome, because the
  DashMap order is unspecified.

### Oracle.tla (EXTENDS SnapshotTracker)

It models `with_commit` and the transaction layer around it.

**State:**
- `seqno`;
- `committed`: the BTreeMap from commit timestamp to the writer's key set;
- `lockHolder`: `write_serialize_lock`;
- per transaction: `pc`, `instant`, `reads` and `writes`. The last two are
  the `ConflictChecker`.

**Actions:**

| action | code |
|---|---|
| `Begin` | takes `instant = seqno` and increments the counter (spec 4.5: reading an instant advances it) |
| `OpenSnapshot` | the tracker's `open`, as a separate step |
| `CommitValidate` | `with_commit` lines 30-54 up to the conflict return |
| `CommitAbort` | `f()` returns an error |
| `CommitApply` | `f()` succeeds: the batch takes one seqno if it has writes, then the checker is inserted at `seqno.get()` |
| `CommitPanic` | `f()` panics while the guard is held: the mutex is poisoned, before or after the batch took its seqno |
| `CommitPoisoned` | `lock()` on a poisoned mutex: the `?` of line 33 returns `Err(Poisoned)` before `close(instant)` |

Begin, the conflict checker and the apply closure are not under `src/`.
They are modelled from spec.md and marked `spec_modelled` in PROJECT.json.

Pruning at the watermark never removes a writer the committing
transaction itself needs: a writer's timestamp is at least the reader's
instant + 2, and the reader's own close never moves the watermark past its
instant + 1. Mutants that prune one past the watermark, or prune before
the conflict check, are therefore not caught, and rightly so.

**Panics.** `lockPoisoned` records a panic in the apply closure. A panic
after the batch was applied leaves its writes visible but unrecorded in
`committed`. Only the poisoned mutex then keeps a later reader of those keys
from committing: the mutant `CommitValidateOnPoisonedLock` goes on past the
`?` and breaks `SerializableUnlessOvertaken` in 8 steps. The transactions
that get `Err(Poisoned)` keep their snapshots open, so gc stops for good.
This is the code's fail-stop, and it is listed as a hazard.

**History variables.** The properties use two:
- `missed[t]`: the keys written by Ok commits since `t` took its instant;
- `overtaken[t]`: the watermark was already past `t`'s instant when `t`
  opened its snapshot.

### DescriptorTable.tla

It models `descriptor_table.rs`.

- **Table.** `table` is a function from id to the set of descriptors in its
  pool. A descriptor is a number handed out by `nextFd`. `lru` is the
  `LruList`.
- **Counters and flags.** `size` is the AtomicUsize. `used` holds the
  descriptors whose `is_used` is set.
- **Threads.** `readers` holds the threads spinning under the outer read
  lock. `poisoned` records a panic under the write lock.

**Actions:**

| action | code |
|---|---|
| `Insert`, `Remove`, `Clear` | the three write-locked table operations |
| `AccessBegin` | the read-locked half of `access`, including the panic when the id is gone |
| `SpinAcquire` | a successful pass of the compare-exchange loop |
| `Fill` | the whole write-locked half of `access`; see below |
| `Release` | `FileGuard::drop` |

`Fill` covers three outcomes:
- the `expect("should exist")` panic;
- a `File::open` error after `n < concurrency` descriptors were pushed;
- success, with `size_now`, the LRU rotation and the eviction (`Evicted`).

`ServingNext` is everything but `clear()`, which the tree calls when it is
dropped.

### Memtable.tla

It models the lsm-tree memtable. The fjall core copy has the same `get` and
`insert`.

- **State.** `items` maps `<<user_key, seqno>>` to the value type. User keys
  are sequences of letters, so one can be a prefix of another.
- **`get` as a range scan.** A reader runs `get` one loop turn at a time
  while writers insert (`rpc`, `rkey`, `rseq`, `cursor`, `result`):
  - `GetBegin` (lines 20-39) sets the iterator at `RangeStart(key)`, the
    internal key `(key, MAX)`, which is before every entry of `key`;
  - `GetStep` (41-59) takes the least entry after the cursor in the map as
    it is at that step (`After`, `Least`). That is what a SkipMap range
    iterator sees: an entry linked ahead of the cursor is visited, one
    linked behind it is not. Past the key's prefix it returns None; an
    entry that passes the seqno check (`Returns`) is returned; at the end
    of the range it returns None.
- **Reference.** `NewestVisible` is the exact-key definition the spec asks
  for. `seen` is a history variable: the `NewestVisible` answers at the
  start of the call and after every insert during it.
- **`Insert`.** A writer inserts one key under the seqno it holds. Writers
  insert in any seqno order, before, during or after a read.
- **Seqnos and restarts** (the counter and the recovery are outside `src/`,
  modelled from spec 4.1 and marked `spec_modelled`).
  - `Reserve` takes the next seqno from `counter`; `pending` holds the
    seqnos of writers that have not inserted yet.
  - `Restart` keeps `items` (the memtable is rebuilt from the journal),
    drops the unfinished get and the pending writers, and resumes the
    counter at `NextSeqNo(items)`, which is `get_next_seqno()` (lines 68-78).
  - A write that reached the journal but not the memtable before the crash
    is replayed. That is the same as the insert happening just before the
    restart, which the model already contains.
  - `written` is a history variable: every insert that returned. Batches
    that write several keys under one seqno are not modelled.

### Monitor.tla

It models `Monitor::run` in `src/fjall/src/monitor.rs`, one tick after
another, interleaved with the threads it races with.

- **State of the collaborators** (not under `src/`, modelled from spec 3,
  4.6 and 5 and marked `spec_modelled`): `active` (each partition's active
  memtable size), `tasks` (the flush manager's queue per partition, each
  task with its size and the journal it was sealed in), `wbSize` (the
  shared `approximate_write_buffer_size`), `journals` with the partitions
  pinning each, `oldest` and `current`. Sizes are units: one write is one
  unit of memtable, write buffer and journal.
- **Collaborator actions.** `Write`; `ExternalRotate` (a rotation by another
  thread, through `RotateMemtable`, which returns Ok(true), Ok(false) on an
  empty memtable, or an error); `FlushDone` (a flush worker finishes a task:
  the counter drops, the partition unpins the journals it covered, unpinned
  journals at the front are deleted).
- **run() steps.** `mpc` is the monitor's place in `run()`; `candidates`,
  `order` and `wbRead` are its locals. Each read of shared state is a step
  of its own, since the code takes and drops a lock or loads an atomic
  there:

| action | lines |
|---|---|
| `MonitorCheckJournal` | 30-41: `disk_space_used` over half, pinning partitions of the oldest journal |
| `MonitorJournalFilter` | 43-51: drop partitions with queued tasks |
| `MonitorJournalRotate` | 53-62: rotate each, errors logged |
| `MonitorReadWriteBuffer` | 67-69: load `write_buffer_size` |
| `MonitorReadQueued` | 71-87: `queued_size`, `saturating_sub`, threshold; below it the tick ends |
| `MonitorSortPartitions` | 90-102: largest active memtable first |
| `MonitorWriteBufferFilter` | 104-112 |
| `MonitorWriteBufferRotate` | 114-130: rotate until one returns Ok(true) |
| `MonitorWriteBufferExhausted` | the loop runs out of partitions |

### SegmentWriter.tla, SortedRun.tla and SegmentId.tla

`SegmentWriter` models `src/src/segment/writer.rs` and
`Metadata::from_writer` (`src/src/segment/meta.rs` 58-92, `FromWriter`)
and `key_range_contains` (94-97, `KeyRangeContains`). One flush or
compaction thread feeds a sorted stream to a `MultiWriter` and finishes it,
so there is no interleaving here; what makes it hard is the I/O error
possible at every `?`. An error propagates to the caller, which abandons
the writer, so a failure ends the behaviour (`pc = "failed"`) with whatever
it left on disk.

- **State.** `input` (the values not yet written), `consumed`, `evict`
  (`evict_tombstones`), `pc`, `w` (the current `Writer`'s fields: chunk,
  `chunk_size`, counters, `file_pos`, key and seqno bounds), `cur`
  (`current_segment_id`), `nextId` (what `generate_segment_id` returns
  next, a fresh number), `created` (`created_items`) and `disk` (segment id
  to folder: the blocks file as blocks at offsets, the index entries, and
  whether `finish` sealed it).
- **Types.** `WriterState` is `struct Writer` (112-132) and `Metadata` is
  `struct Metadata` (meta.rs 11-55), restricted to the fields the model
  keeps. `TypeOK` requires every recorded `Metadata` to have items and a
  key range of two keys. `from_writer` panics through its
  `expect("should have written at least 1 item")` otherwise, so this checks
  the `item_count > 0` tests of `rotate` and `finish`.
- **Data.** A value is its key, seqno, tombstone flag and size. LZ4 output
  is any length from 1 to the input length + 1 (`CompressedLens`).
- **Writer operations** are operators that return the set of outcomes:
  `NewWriterOutcomes` (143-178), `WriteBlockOutcomes` (183-235, failing
  before the append, or after the append and before `register_block`),
  `WriterWriteOutcomes` (238-272), `WriterFinishOutcomes` (275-310, with
  the empty-folder removal of 280-288 in `FinishClosed`).
- **MultiWriter actions.** `New` (37-53), `Write` (82-90, with
  `RotateOutcomes` for `rotate`, 56-79) and `Finish` (95-106).

`SortedRun` is the abstract specification of what a multi-writer promises
(spec 4.2, property 4): values are taken one at a time and made readable in
order, evicted tombstones dropped; the run finishes, or fails with nothing
promised. `SegmentWriter` refines it with `Out` (the recorded segments read
back through their index, then the current segment's indexed blocks and its
chunk) as `out`.

`SegmentId` models `src/src/id.rs`: `ToBase36` is the digit loop as a
RECURSIVE operator, checked against positional notation (`FromBase36`, a
fold). `generate_segment_id` only formats a clock reading and a random
number into a string, which the model does not build.
The ids are not sortable by creation time, which spec 3 claims: the fields
are unpadded (at hour 1, minute 5 gives `15`, minute 40 gives `114`, which
sorts first) and there is no seconds field. Nothing under `src/` orders
segments by id, so this is a hazard and not a run.

## Runs

Each run has its own cfg, listed in PROJECT.json.

**Passing runs:**

| run | cfg | properties | shows |
|---|---|---|---|
| oracle_ssi | MCOracle.cfg | TypeOK, SerializableUnlessOvertaken, OpenSnapshotProtected, WatermarkCatchesUp | see note 1 |
| dt_serving | MCDescriptorTable.cfg | TypeOK, ExclusiveGuards, SizeMatchesPools, AccessReturns | see note 2 |
| memtable_get | MCMemtable.cfg | TypeOK, GetLinearizable, VersionsNeverReplaced | see note 3 |
| monitor_backpressure | MCMonitor.cfg | TypeOK, PressureRelieved | see note 4 |
| segment_writer | MCSegmentWriter.cfg | TypeOK, FinishedSegmentsIndexed, MetadataMatchesSegment, NoEmptySegmentLeft, ToBase36Correct, RefinesSortedRun | see note 5 |

1. **oracle_ssi.** With three transactions, the commit check is exact for
   every transaction whose snapshot was opened before the watermark passed
   it. The watermark never passes such an open snapshot. When gc runs with watermark `w` and every
   snapshot at or below `s <= w - safety_gap` is closed, the mark is at
   least `s` afterwards (spec property 9 promises `s - safety_gap`; the
   code gives more, because the closing instant itself is always retained
   and bounds `lowest_retained`). All of this holds across a panic in
   `apply()`, because the poisoned lock stops every later commit.
   `get_seqno_safe_to_gc()` never decreasing (spec property 8) is not
   checked as a property: the `max` of snapshot_tracker.rs 87-90 gives it
   by construction.
2. **dt_serving.** No descriptor is handed to two guards. `size` counts the
   pools exactly (at concurrency 1). Every access returns or the lock is
   poisoned.
   At concurrency 1 a failed fill has pushed nothing. At concurrency 2,
   `SizeMatchesPools` fails in three steps. A fill whose second `File::open`
   fails returns early (line 137) and leaves one descriptor pooled while
   `size` stays 0. A later `remove` then wraps the AtomicUsize below zero.
   This is a code bug. It is recorded as the hazard at line 137 rather than
   as a run, because each violation run here holds one finding and none is
   free.
3. **memtable_get.** `get` is linearizable under concurrent inserts. It
   returns the newest visible version of the key as of some moment of the
   call, despite longer keys sharing the prefix and inserts landing ahead
   of or behind the scan. The only other answer is the wrong-key entry of
   `memtable_prefix`. That answer occurs only at a moment when the key had
   no visible version. No write ever replaces another write's version,
   across a restart too. `SkipMap::insert` replaces an equal
   `(key, seqno)`, so this holds only because the counter resumes strictly
   above every recovered seqno. With the `+ 1` of `get_next_seqno` dropped,
   TLC breaks it in five steps: write key `a` at seqno 0, restart (the
   counter resumes at 0), and write `a` again at seqno 0 as a tombstone.
4. **monitor_backpressure.** Once writes stop, the journal and the
   unqueued write buffer eventually stay at or below half their limits,
   despite rotation errors, empty memtables and rotations by other threads.
   The run cannot tell apart a rotation loop that stops at the first error
   or one that rotates every partition: with errors bounded and ticks
   repeating, those also relieve the pressure. The write-buffer counter
   itself is changed only by the collaborators, which are modelled from the
   spec, so no property about it would say anything about `run()`.
5. **segment_writer.** With an I/O failure possible at every step, the
   multi-writer refines `SortedRun`. After a successful finish every
   recorded segment is sealed, every block has its index entry, no empty
   folder is left, and each `Metadata` matches its segment as read back.
   `to_base36` is positional notation on 0..80 and around 36^2 and 36^3.

**Violation runs.** Each one is a finding in PROJECT.json.

| run | property | what TLC finds |
|---|---|---|
| oracle_begin_stall | Serializable | a gc between begin's instant and its snapshot open prunes a writer the late transaction conflicts with (depth 16) |
| oracle_empty_commit | SerializableUnlessOvertaken | a write-less commit replaces the previous writer's checker at the same `seqno.get()` |
| oracle_fresh_keyspace | OpenSnapshotProtected | instant 0 open; the 0 sentinel in `gc` lets the DashMap order move the watermark to 1 |
| dt_budget | BudgetAtQuiescence | insert 1,2,3, access 3,2,1 with limit 2: three descriptors stay open |
| dt_remove_race | NeverPoisoned | remove between the two halves of access; `expect("should exist")` panics under the write lock |
| memtable_prefix | GetReturnsRequestedKey | `get("a", None)` returns the entry of `"aa"` when `"a"` is absent |
| segment_split_key | RunKeyRangesDisjoint | two versions of one key, each a block long: the rotation check after the first block closes the segment, so the run's key ranges overlap |

Three more descriptor-table defects show up in the same model and are
recorded as hazards rather than runs: two readers that both saw an empty
pool both fill it (the missing re-check that `dt_remove_race` shows);
with concurrency 2 a `File::open` error after one push leaves a pooled
descriptor that `size` does not count; and `clear()` (action `Clear`, only
in `Spec`) leaves `size` and the LRU list as they were.  In `Monitor`,
run() reads the write-buffer size and the queued size in two separate
steps; a write and a rotation between them make queued exceed the loaded
size, so the `debug_assert` at monitor.rs:80 fails in debug builds
(hazard monitor.rs:80). That assertion is also strict: it fails on the
first `run()` over an empty keyspace, where both sizes are 0 (three steps
in the model), and whenever every memtable is queued. The non-strict form
holds whenever the load is not stale.

**Mutants.** Every property of a passing run has a mutant in PROJECT.json: a
plausible bug in a mapped definition that TLC catches under the run's cfg.
Examples:
- `with_commit` without its early return on a conflict;
- `gc` ignores reference counts;
- the spin loop takes a descriptor without compare-exchange;
- eviction subtracts `concurrency` instead of the pool length;
- a guard drop that leaves `is_used` set;
- the memtable seqno check written with `<=`;
- the monitor comparing the residual write buffer with the whole limit
  instead of half of it;
- `write_block` not clearing the chunk, which the refinement catches;
- `MultiWriter::finish` going through `rotate`, which leaves an empty
  segment folder.

## Bounds and why they suffice

- **Oracle.**
  - 3 transaction handles (model values, symmetric) and 2 keys.
  - Non-empty write sets, and read sets drawn from all subsets of the keys.
  - `safety_gap = 2`, so `gc` runs on every even instant.
  - Instants run from `InitSeqNo = 1` up to `MaxSeqNo = 6`. That allows
    several gcs, a watermark passing closed instants, and two writers
    committing inside a third transaction's window.
  - 2.64M states in about 95 s, with a panic in `apply()` possible at
    every commit. `MaxSeqNo = 7` (measured before the panic was modelled)
    takes about 4 minutes and finds nothing more for the passing
    properties.
  - `SeqNoModulus = 2^16` stands in for 2^64. It is far above every instant
    plus the gap, so only the `gc(0)` wrap-around is visible, and that case
    is the real one.
- **Descriptor table.**
  - 3 segment ids and 2 readers (symmetric), limit 2, concurrency 1.
  - At most 5 descriptors ever opened. `FdsInReserve` keeps room for every
    fill in progress, so the bound never blocks a started access.
  - Three ids against a limit of two is the smallest setting where eviction
    happens. Two readers are the smallest for the fill and spin races.
  - Concurrency 2 is used where the partial open failure needs it.
- **Memtable.**
  - Keys `<<1>>`, `<<1,1>>`, `<<2>>`: a key, an extension of it, and an
    unrelated key.
  - Seqnos 0..3, two value types, and at most 3 entries. Every write takes
    a fresh seqno, so the fourth seqno lets a restart lose a writer's seqno
    and still leave room for three entries.
  - One restart. A second adds no new case: the counter only resumes at a
    point the first already tests.
  - One reader, with reads at every seqno, one above each, and None. One
    reader is enough, because readers do not change the map.
  - About 1M states in about a minute. Four entries (2.26M states) run
    past the time budget under load and add no new order of entries for the
    scan. A second extension of the key (`<<1,2>>`)
    multiplies this past 5 minutes. It adds no new order of entries for
    the scan.

- **Monitor.**
  - 2 partitions, at most 4 writes and 1 failed rotation.
  - Write-buffer limit 4 and journal limit 6: the write-buffer branch fires
    at 3 unqueued units, the journal branch at 4 units on disk, so each
    branch can fire without the other.
  - 102,891 states in about 35 s.
- **Segment writer.**
  - Keys {1, 2}, seqnos {0, 1}, sizes {1, 2}, every sorted input of up to
    4 values, both `evict_tombstones` settings.
  - Block size 2, target size 3, header 1: a value of size 2 fills a block,
    two of size 1 do, and the first block already reaches the target, so
    inputs of 4 values go through several blocks and rotations, including
    a rotation at the last value that leaves an empty writer for `finish`.
  - About 120,000 states in 15 s. The split-key run uses inputs of up to
    3 values, enough for two versions of one key.

## Fairness

- **Oracle.** No fairness. Clients may stop at any point. The properties
  are invariants and `CHECK_DEADLOCK FALSE`, since the model stops when the
  counter reaches its bound.
- **Descriptor table.** `ServingSpec` assumes the following:
  - weak fairness on `Release`: a reader that got a guard eventually drops
    it;
  - strong fairness on `SpinAcquire` and `Fill`: the spin loop retries
    forever, and the RwLock is eventually granted to a waiting writer when
    it is free infinitely often.

  Insert, remove and new accesses are up to callers and are not fair.
  `AccessReturns` depends on exactly these assumptions: without a release,
  a spinner waits forever, and the mutant `ReleaseKeepingFlag` shows that.

- **Segment writer.** No fairness and `CHECK_DEADLOCK FALSE`: the writer is
  consumed by `finish` or abandoned on an error, so a behaviour really
  stops. The properties are invariants and the refinement, a safety
  property.
- **Monitor.** The monitor is called on a cadence forever, and the flush
  workers work off their queue as long as it is not empty: weak fairness
  on the monitor's steps and on each partition's `FlushDone`. Writes and
  other rotations are up to clients and are not fair.

## What is not modelled

These are done: SnapshotTracker, Oracle, DescriptorTable, Memtable,
Monitor, SegmentWriter (with SortedRun) and `to_base36` of SegmentId. In
the monitor, two hazards have no property:
- **Double queueing** (monitor.rs:47). The queued-partition list goes stale
  before the rotations. Spec 4.6 (line 215) says both monitor policies
  follow one rule: "do not double-queue a partition". TLC breaks the rule
  in 11 steps. Three writes go to `pa`, and the write-buffer branch filters
  while `pa` is unqueued. Another thread then rotates `pa` (task 1), a
  write lands in `pa`, and the monitor's rotation of `pa` queues task 2.
  No violation run is free, so this is recorded as a hazard.
- **Sorting** (monitor.rs:98). The sort runs while writers change the
  sizes.

Hazards recorded without a property:
- **Bloom file** (segment/meta.rs:59). With the `bloom` feature,
  `from_writer` opens a `bloom` file that `Writer::finish` never writes
  (the TODO at writer.rs:296). No manifest here declares the feature, so the
  model follows the build without it.
- **Crashes.** `write_to_file` truncates `meta.json` and writes it in place
  (meta.rs:102). A crash can therefore leave a torn file, where spec.md
  line 66 only covers a missing one. Also, the segments folder that holds a
  new segment folder is never fsynced. Nothing under `src/` reads segments
  back after a restart, so there is no recovery step to model.
- **Watermark liveness** (snapshot_tracker.rs:54). gc runs only when a
  closed instant is a multiple of `safety_gap`. `WatermarkCatchesUp` checks
  every gc that does run. No fairness in the code forces such a close, so a
  liveness property would fail on a schedule the code allows.

Left out for good:
- config: builder setters that assign one field after an argument assertion,
  and `open()`, which hands over to `Tree::open` outside `src/`. One
  divergence is visible by reading alone: `Default` sets
  `max_memtable_size` to 128 MiB (config.rs:57). The doc comments at lines
  30 and 108 and spec.md line 257 say 64 MiB. It is a constant with no
  behaviour for TLC to explore;
- the error enum;
- `Metadata::write_to_file` and `from_disk` (JSON file I/O, called only by the unit tests under `src/`);
- the prefix iterator, whose behaviour is that of `MergeIterator` and the
  segment readers. Neither is under `src/`, and spec.md does not define
  their merge order, so a model would be invented rather than translated;
- the journal, compaction, block cache and bloom filter, which are out of
  scope in spec.md section 1.
