---------------------------- MODULE SegmentWriter ----------------------------
(***************************************************************************)
(* The segment Writer and MultiWriter of src/src/segment/writer.rs, with   *)
(* Metadata::from_writer of src/src/segment/meta.rs.                       *)
(*                                                                         *)
(* One flush or compaction thread feeds a sorted stream of values to a     *)
(* MultiWriter and then finishes it.  Every `?` of the code is a point     *)
(* where an I/O call may fail: the error propagates, and the caller        *)
(* abandons the writer, so a failure ends the run with whatever it left    *)
(* on disk.                                                                *)
(*                                                                         *)
(* Data: a value is its key, seqno, tombstone flag and size (Value::size). *)
(* Keys are numbers in byte order.  LZ4 output is any length from 1 to the *)
(* input length + 1.  A segment folder on disk is its blocks file (blocks  *)
(* at offsets), its index (the registered [first key, offset, length]     *)
(* entries) and whether finish() sealed it (index sentinel written, files  *)
(* and folder fsynced).  generate_segment_id is a fresh number here; its   *)
(* format is SegmentId.                                                    *)
(***************************************************************************)
EXTENDS Naturals, Sequences, SequencesExt, FiniteSets

CONSTANTS
  Keys,         \* user keys (numbers, compared as bytes would be)
  SeqNos,       \* seqnos of the values
  ItemSizes,    \* Value::size of a value
  MaxInput,     \* longest input stream
  BlockSize,    \* opts.block_size
  TargetSize,   \* MultiWriter::target_size
  HeaderSize,   \* bytes of the file header (Version::V0)
  SeqNoMax,     \* SeqNo::MAX, lowest_seqno's initial value
  NoKey         \* first_key/last_key = None

ASSUME HeaderSize \in Nat /\ BlockSize \in Nat \ {0} /\ TargetSize \in Nat

VARIABLES
  input,     \* the values still to be written
  consumed,  \* the values write() was called with and returned Ok
  evict,     \* opts.evict_tombstones
  pc,        \* "new" (before MultiWriter::new), "open", "done", "failed"
  w,         \* the current Writer's in-memory fields
  cur,       \* current_segment_id
  nextId,    \* the id generate_segment_id returns next
  created,   \* created_items: Seq of Metadata
  disk       \* segment id -> its folder on disk

vars == <<input, consumed, evict, pc, w, cur, nextId, created, disk>>

Item == [key : Keys, seqno : SeqNos, tomb : BOOLEAN, size : ItemSizes]

(* Internal key order: user key ascending, seqno descending. *)
InputLess(a, b) == a[1] < b[1] \/ (a[1] = b[1] /\ a[2] > b[2])

(* The sorted streams of at most MaxInput distinct internal keys. *)
SortedInputs ==
  UNION { LET ks == SetToSortSeq(S, InputLess)
          IN  { [i \in DOMAIN ks |-> [key |-> ks[i][1], seqno |-> ks[i][2],
                                      tomb |-> t[i], size |-> z[i]]] :
                  t \in [DOMAIN ks -> BOOLEAN], z \in [DOMAIN ks -> ItemSizes] }
        : S \in {S \in SUBSET (Keys \X SeqNos) : Cardinality(S) <= MaxInput} }

ChunkBytes(c) == FoldLeft(LAMBDA acc, v : acc + v.size, 0, c)

CompressedLens(n) == 1 .. n + 1

(* struct Writer (lines 112-132): the in-memory fields.  The block and   *)
(* index file handles are the folder in `disk`; opts is the constants.    *)
WriterState ==
  [chunk : Seq(Item), chunkSize : Nat, itemCount : Nat, blockCount : Nat,
   filePos : Nat, uncompressed : Nat, firstKey : Keys \cup {NoKey},
   lastKey : Keys \cup {NoKey}, tombstones : Nat,
   lowSeq : SeqNos \cup {SeqNoMax}, highSeq : SeqNos \cup {0}]

(* Writer::new's fields (lines 158-177). *)
NewWriter ==
  [chunk |-> <<>>, chunkSize |-> 0, itemCount |-> 0, blockCount |-> 0,
   filePos |-> HeaderSize, uncompressed |-> 0, firstKey |-> NoKey,
   lastKey |-> NoKey, tombstones |-> 0, lowSeq |-> SeqNoMax, highSeq |-> 0]

EmptyDir == [blocks |-> <<>>, index |-> <<>>, sealed |-> FALSE]

RemoveDir(dk, id) == [d \in DOMAIN dk \ {id} |-> dk[d]]

(* Writer::new: create_dir_all, File::create, header, IndexWriter::new.   *)
(* A failure before the folder exists leaves nothing; a later one leaves  *)
(* the folder.                                                            *)
NewWriterOutcomes(dk, id) ==
  { [ok |-> FALSE, w |-> NewWriter, disk |-> dk],
    [ok |-> FALSE, w |-> NewWriter, disk |-> dk @@ (id :> EmptyDir)],
    [ok |-> TRUE,  w |-> NewWriter, disk |-> dk @@ (id :> EmptyDir)] }

(* Mutant: the chunk is not cleared after its block is written. *)
BlockWrittenKeepingChunk(wr, n) ==
  [wr EXCEPT !.uncompressed = @ + ChunkBytes(wr.chunk), !.filePos = @ + n,
             !.itemCount = @ + Len(wr.chunk), !.blockCount = @ + 1]

(* The writer after a block of n bytes: uncompressed_size, file_pos,      *)
(* item_count and block_count advance and the chunk is cleared.           *)
BlockWritten(wr, n) ==
  [wr EXCEPT !.uncompressed = @ + ChunkBytes(wr.chunk), !.filePos = @ + n,
             !.itemCount = @ + Len(wr.chunk), !.blockCount = @ + 1,
             !.chunk = <<>>]

(* write_block: CRC, serialize and compress the chunk, append it to the   *)
(* blocks file, register [first key, file_pos, length] with the index,    *)
(* then update the writer.  It fails before anything reaches the file     *)
(* (create_crc, write_all) or after the block is in the file but not in   *)
(* the index (register_block).                                            *)
WriteBlockOutcomes(wr, dk, id) ==
  LET written(n) == [dk EXCEPT ![id].blocks =
                       Append(@, [offset |-> wr.filePos, len |-> n, items |-> wr.chunk])]
      lens == CompressedLens(ChunkBytes(wr.chunk))
  IN  {[ok |-> FALSE, w |-> wr, disk |-> dk]}
      \cup {[ok |-> FALSE, w |-> wr, disk |-> written(n)] : n \in lens}
      \cup {[ok |-> TRUE,
             w |-> BlockWritten(wr, n),
             disk |-> [written(n) EXCEPT ![id].index =
                         Append(@, [key |-> Head(wr.chunk).key, offset |-> wr.filePos, len |-> n])]]
            : n \in lens}

(* Lines 244-251: count a tombstone, push the value into the chunk. *)
Pushed(wr, v) ==
  [wr EXCEPT !.tombstones = @ + (IF v.tomb THEN 1 ELSE 0),
             !.chunkSize = @ + v.size, !.chunk = Append(@, v)]

(* Mutant: last_key is only set while it is None, like first_key. *)
TrackedKeepingLastKey(wr, v) ==
  [wr EXCEPT !.firstKey = IF @ = NoKey THEN v.key ELSE @,
             !.lastKey = IF @ = NoKey THEN v.key ELSE @,
             !.lowSeq = IF @ > v.seqno THEN v.seqno ELSE @,
             !.highSeq = IF @ < v.seqno THEN v.seqno ELSE @]

(* Lines 258-269: first_key once, last_key always, the seqno bounds. *)
Tracked(wr, v) ==
  [wr EXCEPT !.firstKey = IF @ = NoKey THEN v.key ELSE @,
             !.lastKey = v.key,
             !.lowSeq = IF @ > v.seqno THEN v.seqno ELSE @,
             !.highSeq = IF @ < v.seqno THEN v.seqno ELSE @]

(* Mutant: chunk_size is not reset after the block is written. *)
WriterWriteNoReset(wr, dk, id, v) ==
  IF v.tomb /\ evict THEN {[ok |-> TRUE, w |-> wr, disk |-> dk]}
  ELSE LET p == Pushed(wr, v)
       IN  IF p.chunkSize >= BlockSize
             THEN {IF r.ok THEN [r EXCEPT !.w = Tracked(r.w, v)] ELSE r :
                     r \in WriteBlockOutcomes(p, dk, id)}
             ELSE {[ok |-> TRUE, w |-> Tracked(p, v), disk |-> dk]}

(* Writer::write: an evicted tombstone is dropped; otherwise the value is *)
(* pushed, a full chunk is written as a block (chunk_size reset), and the *)
(* keys and seqnos are tracked.  An error of write_block returns at once. *)
WriterWriteOutcomes(wr, dk, id, v) ==
  IF v.tomb /\ evict THEN {[ok |-> TRUE, w |-> wr, disk |-> dk]}
  ELSE LET p == Pushed(wr, v)
       IN  IF p.chunkSize >= BlockSize
             THEN {IF r.ok THEN [r EXCEPT !.w = Tracked([r.w EXCEPT !.chunkSize = 0], v)]
                   ELSE r : r \in WriteBlockOutcomes(p, dk, id)}
             ELSE {[ok |-> TRUE, w |-> Tracked(p, v), disk |-> dk]}

(* Mutant: finish() returns Ok without finishing the index and syncing. *)
FinishClosedUnsealed(r, id) ==
  IF r.w.itemCount = 0 THEN [r EXCEPT !.disk = RemoveDir(@, id)] ELSE r

(* Lines 280-300, after the chunk is written: with no items, delete the  *)
(* folder and return; otherwise flush, finish the index at file_pos and  *)
(* fsync the blocks file and the folder.                                  *)
FinishClosed(r, id) ==
  IF r.w.itemCount = 0
    THEN [r EXCEPT !.disk = RemoveDir(@, id)]
    ELSE [r EXCEPT !.disk = [@ EXCEPT ![id].sealed = TRUE]]

(* Writer::finish: write the partial chunk, then close as above; every   *)
(* step may fail (remove_dir_all, flush, index finish, the fsyncs).       *)
WriterFinishOutcomes(wr, dk, id) ==
  LET flushed == IF wr.chunk # <<>> THEN WriteBlockOutcomes(wr, dk, id)
                 ELSE {[ok |-> TRUE, w |-> wr, disk |-> dk]}
      written == {x \in flushed : x.ok}
  IN  {r \in flushed : ~r.ok}
      \cup {FinishClosed(r, id) : r \in written}
      \cup {[r EXCEPT !.ok = FALSE] : r \in written}

(* Metadata::from_writer (meta.rs 58-92). *)
FromWriter(id, wr) ==
  [id |-> id, itemCount |-> wr.itemCount, blockCount |-> wr.blockCount,
   fileSize |-> wr.filePos, uncompressed |-> wr.uncompressed,
   keyRange |-> <<wr.firstKey, wr.lastKey>>, seqnos |-> <<wr.lowSeq, wr.highSeq>>,
   tombstones |-> wr.tombstones]

(* struct Metadata (meta.rs 11-55), the fields from_writer fills that   *)
(* the model keeps (path, block_size, created_at and is_compressed are    *)
(* constant here).  key_range is a pair of keys: from_writer's            *)
(* expect("should have written at least 1 item") panics on a writer whose *)
(* first_key is None.                                                     *)
Metadata ==
  [id : Nat, itemCount : Nat \ {0}, blockCount : Nat, fileSize : Nat,
   uncompressed : Nat, keyRange : Keys \X Keys, seqnos : SeqNos \X SeqNos,
   tombstones : Nat]

(* Metadata::key_range_contains: the key lies within [first, last]. *)
KeyRangeContains(meta, key) ==
  key >= meta.keyRange[1] /\ key <= meta.keyRange[2]

(* MultiWriter::rotate: finish the writer, start one at a new id, and    *)
(* record the old one's metadata if it has items.                        *)
RotateOutcomes(wr, dk, id, newId) ==
  UNION { IF ~f.ok THEN {[ok |-> FALSE, w |-> wr, disk |-> f.disk, meta |-> <<>>]}
          ELSE { [ok |-> n.ok, w |-> n.w, disk |-> n.disk,
                  meta |-> IF f.w.itemCount > 0 THEN <<FromWriter(id, f.w)>> ELSE <<>>] :
                   n \in NewWriterOutcomes(f.disk, newId) }
        : f \in WriterFinishOutcomes(wr, dk, id) }

Init ==
  /\ input \in SortedInputs
  /\ consumed = <<>>
  /\ evict \in BOOLEAN
  /\ pc = "new"
  /\ w = NewWriter
  /\ cur = 0
  /\ nextId = 1
  /\ created = <<>>
  /\ disk = [id \in {} |-> EmptyDir]

(* An error returned to the caller: the writer is abandoned, the folders *)
(* stay as the failed call left them.                                     *)
Failing(dk) ==
  /\ pc' = "failed"
  /\ disk' = dk
  /\ UNCHANGED <<input, consumed, evict, w, cur, nextId, created>>

(* MultiWriter::new: a fresh id and a Writer in its folder. *)
New ==
  /\ pc = "new"
  /\ \E n \in NewWriterOutcomes(disk, nextId) :
       /\ pc' = IF n.ok THEN "open" ELSE "failed"
       /\ disk' = n.disk
       /\ w' = n.w
       /\ cur' = nextId
       /\ nextId' = nextId + 1
  /\ UNCHANGED <<input, consumed, evict, created>>

Wrote(v) ==
  /\ input' = Tail(input)
  /\ consumed' = Append(consumed, v)
  /\ UNCHANGED <<evict, pc>>

(* MultiWriter::write: write the value, then rotate once file_pos has    *)
(* reached target_size.                                                  *)
Write ==
  /\ pc = "open"
  /\ input # <<>>
  /\ LET v == Head(input) IN
     \E r \in WriterWriteOutcomes(w, disk, cur, v) :
       \/ /\ ~r.ok
          /\ Failing(r.disk)
       \/ /\ r.ok
          /\ r.w.filePos < TargetSize
          /\ Wrote(v)
          /\ w' = r.w
          /\ disk' = r.disk
          /\ UNCHANGED <<cur, nextId, created>>
       \/ /\ r.ok
          /\ r.w.filePos >= TargetSize
          /\ \E q \in RotateOutcomes(r.w, r.disk, cur, nextId) :
               IF q.ok
                 THEN /\ Wrote(v)
                      /\ w' = q.w
                      /\ disk' = q.disk
                      /\ cur' = nextId
                      /\ nextId' = nextId + 1
                      /\ created' = created \o q.meta
                 ELSE Failing(q.disk)

(* Mutant: finish() goes through rotate(), which starts a new writer. *)
FinishViaRotate ==
  /\ pc = "open"
  /\ input = <<>>
  /\ \E q \in RotateOutcomes(w, disk, cur, nextId) :
       IF q.ok
         THEN /\ pc' = "done"
              /\ disk' = q.disk
              /\ w' = q.w
              /\ created' = created \o q.meta
              /\ UNCHANGED <<input, consumed, evict, cur, nextId>>
         ELSE Failing(q.disk)

(* MultiWriter::finish: finish the current writer and record it if it   *)
(* has items (an empty one has deleted its folder).                      *)
Finish ==
  /\ pc = "open"
  /\ input = <<>>
  /\ \E f \in WriterFinishOutcomes(w, disk, cur) :
       IF f.ok
         THEN /\ pc' = "done"
              /\ disk' = f.disk
              /\ w' = f.w
              /\ created' = IF f.w.itemCount > 0
                               THEN Append(created, FromWriter(cur, f.w))
                               ELSE created
              /\ UNCHANGED <<input, consumed, evict, cur, nextId>>
         ELSE Failing(f.disk)

Next == New \/ Write \/ Finish

Spec == Init /\ [][Next]_vars

-----------------------------------------------------------------------------

(* A segment read back through its index, the way a reader finds blocks: *)
(* each entry's [offset, length] names a block of the blocks file.        *)
BlockAt(dir, e) ==
  LET found == {b \in Range(dir.blocks) : b.offset = e.offset /\ b.len = e.len}
  IN  IF found = {} THEN <<>> ELSE (CHOOSE b \in found : TRUE).items

ReadSegment(id) ==
  IF id \in DOMAIN disk
    THEN FlattenSeq([i \in DOMAIN disk[id].index |-> BlockAt(disk[id], disk[id].index[i])])
    ELSE <<>>

(* The values readable from the recorded segments. *)
RunItems == FlattenSeq([i \in DOMAIN created |-> ReadSegment(created[i].id)])

(* Refinement mapping: what the writer has made readable is the recorded  *)
(* segments, then the current segment's indexed blocks and its chunk.     *)
Out == RunItems \o (IF pc = "done" THEN <<>> ELSE ReadSegment(cur) \o w.chunk)

AbsStatus == CASE pc \in {"new", "open"} -> "open"
               [] pc = "done" -> "done"
               [] pc = "failed" -> "failed"

Abstract == INSTANCE SortedRun
              WITH pending <- input, out <- Out, status <- AbsStatus,
                   Inputs <- SortedInputs

TypeOK ==
  /\ input \in Seq(Item) /\ consumed \in Seq(Item)
  /\ evict \in BOOLEAN
  /\ pc \in {"new", "open", "done", "failed"}
  /\ w \in WriterState
  /\ \A i \in DOMAIN created : created[i] \in Metadata
  /\ w.chunkSize \in 0 .. BlockSize - 1
  /\ w.filePos >= HeaderSize
  /\ cur \in 0 .. nextId - 1
  /\ \A i \in DOMAIN created : created[i].id \in 1 .. nextId - 1
  /\ DOMAIN disk \subseteq 1 .. nextId

(* The MultiWriter implements a sorted run (spec 4.2, property 4): every  *)
(* Ok write makes exactly its value (or nothing, for an evicted           *)
(* tombstone) readable after everything before it, across block writes   *)
(* and rotations, and finish() loses nothing.                             *)
RefinesSortedRun == Abstract!Spec

(* On a successful finish every recorded segment is sealed and every     *)
(* block of its blocks file has a matching index entry, keyed by the      *)
(* block's first key (spec 4.2 invariant).  It is about write_block's     *)
(* append and register order and finish()'s index and fsync steps.        *)
FinishedSegmentsIndexed ==
  pc = "done" =>
    \A i \in DOMAIN created :
      /\ created[i].id \in DOMAIN disk
      /\ LET d == disk[created[i].id]
         IN  /\ d.sealed
             /\ Len(d.index) = Len(d.blocks)
             /\ \A j \in DOMAIN d.index :
                  /\ d.index[j].offset = d.blocks[j].offset
                  /\ d.index[j].len = d.blocks[j].len
                  /\ d.index[j].key = d.blocks[j].items[1].key

(* Every recorded Metadata describes its segment as read back: item and  *)
(* block counts, key range, seqno range, tombstones, sizes.  It is about  *)
(* the counters of write/write_block across block boundaries, rotation    *)
(* and from_writer.                                                       *)
MetadataMatchesSegment ==
  \A i \in DOMAIN created :
    LET m == created[i]
        vs == ReadSegment(m.id)
        seqs == {vs[j].seqno : j \in DOMAIN vs}
    IN  /\ m.itemCount = Len(vs)
        /\ vs # <<>>
        /\ m.blockCount = Len(disk[m.id].index)
        /\ m.keyRange = <<vs[1].key, vs[Len(vs)].key>>
        /\ m.seqnos = <<Min(seqs), Max(seqs)>>
        /\ m.tombstones = Cardinality({j \in DOMAIN vs : vs[j].tomb})
        /\ m.uncompressed = ChunkBytes(vs)
        /\ m.fileSize = FoldLeft(LAMBDA acc, e : acc + e.len, HeaderSize, disk[m.id].index)

(* Empty segment cleanup (spec property 5): after a successful finish the *)
(* only segment folders are the recorded ones; a writer that got no items *)
(* (all evicted, or started by a rotation at the end) removed its folder.  *)
NoEmptySegmentLeft ==
  pc = "done" => DOMAIN disk = {created[i].id : i \in DOMAIN created}

(* A sorted run has disjoint key ranges: key_range_contains (meta.rs     *)
(* 94-97) holds for every key in at most one segment of the run, which is *)
(* what a point read that picks the one segment containing the key relies *)
(* on.  It is about where rotate() cuts the run.                          *)
RunKeyRangesDisjoint ==
  \A i, j \in DOMAIN created, k \in Keys :
    i # j => ~(KeyRangeContains(created[i], k) /\ KeyRangeContains(created[j], k))
=============================================================================
