------------------------------ MODULE Monitor ------------------------------
(***************************************************************************)
(* The backpressure monitor of src/fjall/src/monitor.rs, one run() after   *)
(* another, interleaved with writers, memtable rotations by other threads  *)
(* and flush workers.                                                      *)
(*                                                                         *)
(* run() reads shared state at several points and acts on what it read:    *)
(* each read or rotation is a step of its own, so that writes, rotations   *)
(* and flushes happen in between.  Its collaborators are not under src/:   *)
(* the journal manager, the flush manager and Partition::rotate_memtable   *)
(* are modelled from spec.md 3, 4.6 and 5:                                 *)
(*  - a write adds one unit to its partition's active memtable, to the     *)
(*    shared write-buffer counter and to the active journal, which it pins;*)
(*  - rotate_memtable seals a non-empty active memtable into a flush task  *)
(*    and rotates the journal (Ok(true)); an empty one gives Ok(false); it *)
(*    can fail with an I/O error;                                          *)
(*  - a flush worker finishes a task: the write-buffer counter and the     *)
(*    queued size drop by its size, the partition stops pinning the        *)
(*    journals the memtable covered, and unpinned journals at the front    *)
(*    are deleted.                                                         *)
(* Sizes are abstract units: one write is one unit.                        *)
(***************************************************************************)
EXTENDS Naturals, Sequences, SequencesExt, FiniteSets, FiniteSetsExt

CONSTANTS
  Partitions,          \* partition names
  MaxJournalingSize,   \* max_journaling_size_in_bytes
  MaxWriteBufferSize,  \* max_write_buffer_size_in_bytes
  MaxWrites,           \* bound on writes
  MaxRotateErrors      \* bound on failed rotations

VARIABLES
  active,        \* partition -> size of its active memtable
  tasks,         \* partition -> Seq of flush tasks [size, journal] (FlushManager)
  wbSize,        \* approximate_write_buffer_size (the shared AtomicU64)
  journals,      \* journal id -> [size, pins]: journal files not yet deleted
  oldest,        \* id of the oldest journal on disk
  current,       \* id of the active journal
  writes,        \* writes so far (bounded)
  rotateErrors,  \* failed rotations so far (bounded)
  mpc,           \* where the monitor is in run()
  candidates,    \* partitions the journal branch still has to rotate
  order,         \* partitions the write-buffer branch still has to try
  wbRead         \* the write_buffer_size run() loaded

partitionVars == <<active, tasks, wbSize, journals, oldest, current, writes,
                   rotateErrors>>
monitorVars == <<mpc, candidates, order, wbRead>>
vars == <<partitionVars, monitorVars>>

(* The sum of the sizes f[x] over x in S, counted as the units they     *)
(* consist of (a non-recursive form, which TLC's liveness checker can     *)
(* evaluate on states).                                                   *)
Total(f, S) == Cardinality(UNION {{<<x, u>> : u \in 1 .. f[x]} : x \in S})

(* FlushManager::queued_size: the bytes of the queued flush tasks. *)
QueuedSize ==
  Total([p \in Partitions |->
           Total([i \in DOMAIN tasks[p] |-> tasks[p][i].size], DOMAIN tasks[p])],
        Partitions)

(* FlushManager::get_partitions_with_tasks *)
QueuedPartitions == {p \in Partitions : tasks[p] # <<>>}

(* JournalManager::disk_space_used *)
JournalSize == Total([j \in DOMAIN journals |-> journals[j].size], DOMAIN journals)

(* JournalManager::get_partitions_to_flush_for_oldest_journal_eviction *)
OldestJournalPins == journals[oldest].pins

(* Thresholds: `size as f64 > max as f64 * 0.5`. *)
OverHalf(size, max) == 2 * size > max

Init ==
  /\ active = [p \in Partitions |-> 0]
  /\ tasks = [p \in Partitions |-> <<>>]
  /\ wbSize = 0
  /\ journals = (1 :> [size |-> 0, pins |-> {}])
  /\ oldest = 1
  /\ current = 1
  /\ writes = 0
  /\ rotateErrors = 0
  /\ mpc = "start"
  /\ candidates = {}
  /\ order = <<>>
  /\ wbRead = 0

(* A write to partition p: memtable insert, write-buffer fetch_add and    *)
(* journal append.                                                        *)
Write(p) ==
  /\ writes < MaxWrites
  /\ writes' = writes + 1
  /\ active' = [active EXCEPT ![p] = @ + 1]
  /\ wbSize' = wbSize + 1
  /\ journals' = [journals EXCEPT ![current] = [size |-> @.size + 1,
                                                pins |-> @.pins \cup {p}]]
  /\ UNCHANGED <<tasks, oldest, current, rotateErrors, monitorVars>>

(* Partition::rotate_memtable with its result: "true" sealed a non-empty  *)
(* memtable into a flush task and rotated the journal, "false" found it   *)
(* empty, "err" failed with nothing changed.                              *)
RotateMemtable(p, result) ==
  \/ /\ result = "true"
     /\ active[p] > 0
     /\ tasks' = [tasks EXCEPT ![p] = Append(@, [size |-> active[p],
                                                  journal |-> current])]
     /\ active' = [active EXCEPT ![p] = 0]
     /\ journals' = journals @@ (current + 1 :> [size |-> 0, pins |-> {}])
     /\ current' = current + 1
     /\ UNCHANGED <<wbSize, oldest, writes, rotateErrors>>
  \/ /\ result = "false"
     /\ active[p] = 0
     /\ UNCHANGED partitionVars
  \/ /\ result = "err"
     /\ rotateErrors < MaxRotateErrors
     /\ rotateErrors' = rotateErrors + 1
     /\ UNCHANGED <<active, tasks, wbSize, journals, oldest, current, writes>>

RotateResults == {"true", "false", "err"}

(* A rotation by another thread (explicit flush, memtable size limit). *)
ExternalRotate(p) ==
  /\ \E r \in RotateResults : RotateMemtable(p, r)
  /\ UNCHANGED monitorVars

(* Mutant: the journals up to the flushed one are deleted whoever else  *)
(* still pins them.                                                     *)
FlushDoneIgnoringPins(p) ==
  /\ tasks[p] # <<>>
  /\ LET t == Head(tasks[p])
         newOldest == Min({j \in oldest .. current : j = current \/ j > t.journal})
     IN  /\ tasks' = [tasks EXCEPT ![p] = Tail(@)]
         /\ wbSize' = wbSize - t.size
         /\ oldest' = newOldest
         /\ journals' = [j \in newOldest .. current |-> journals[j]]
  /\ UNCHANGED <<active, current, writes, rotateErrors, monitorVars>>

(* A flush worker finishes p's oldest task: the segment is in L0, the     *)
(* write buffer shrinks by the memtable's size, p stops pinning the       *)
(* journals up to the one the memtable was sealed in, and unpinned        *)
(* journals at the front are deleted.                                     *)
FlushDone(p) ==
  /\ tasks[p] # <<>>
  /\ LET t == Head(tasks[p])
         unpinned == [j \in oldest .. current |->
                        IF j <= t.journal
                          THEN [journals[j] EXCEPT !.pins = @ \ {p}]
                          ELSE journals[j]]
         newOldest == Min({j \in oldest .. current :
                             j = current \/ unpinned[j].pins # {}})
     IN  /\ tasks' = [tasks EXCEPT ![p] = Tail(@)]
         /\ wbSize' = wbSize - t.size
         /\ oldest' = newOldest
         /\ journals' = [j \in newOldest .. current |-> unpinned[j]]
  /\ UNCHANGED <<active, current, writes, rotateErrors, monitorVars>>

(* run(), journal branch: read disk_space_used; above half the limit, ask *)
(* for the partitions pinning the oldest journal (then drop the lock).    *)
MonitorCheckJournal ==
  /\ mpc = "start"
  /\ IF OverHalf(JournalSize, MaxJournalingSize)
       THEN /\ candidates' = OldestJournalPins
            /\ mpc' = "journalFilter"
       ELSE /\ mpc' = "readWb"
            /\ UNCHANGED candidates
  /\ UNCHANGED <<partitionVars, order, wbRead>>

(* Filter out the partitions that have queued flush tasks. *)
MonitorJournalFilter ==
  /\ mpc = "journalFilter"
  /\ candidates' = candidates \ QueuedPartitions
  /\ mpc' = "journalRotate"
  /\ UNCHANGED <<partitionVars, order, wbRead>>

(* Rotate the remaining partitions one by one; errors are logged. *)
MonitorJournalRotate ==
  /\ mpc = "journalRotate"
  /\ \E p \in candidates, r \in RotateResults :
       /\ RotateMemtable(p, r)
       /\ candidates' = candidates \ {p}
  /\ UNCHANGED <<mpc, order, wbRead>>

(* Load write_buffer_size (after the journal branch, if it ran). *)
MonitorReadWriteBuffer ==
  /\ \/ mpc = "readWb"
     \/ mpc = "journalRotate" /\ candidates = {}
  /\ wbRead' = wbSize
  /\ mpc' = "readQueued"
  /\ UNCHANGED <<partitionVars, candidates, order>>

(* Mutant: the residual is compared with the whole limit, not half. *)
MonitorReadQueuedFullLimit ==
  /\ mpc = "readQueued"
  /\ LET residual == IF wbRead > QueuedSize THEN wbRead - QueuedSize ELSE 0
     IN  mpc' = IF residual > MaxWriteBufferSize THEN "sort" ELSE "start"
  /\ UNCHANGED <<partitionVars, candidates, order, wbRead>>

(* Read queued_size and compare write_buffer_size.saturating_sub(queued)  *)
(* with half the limit; below it, run() returns.                          *)
MonitorReadQueued ==
  /\ mpc = "readQueued"
  /\ LET residual == IF wbRead > QueuedSize THEN wbRead - QueuedSize ELSE 0
     IN  mpc' = IF OverHalf(residual, MaxWriteBufferSize) THEN "sort" ELSE "start"
  /\ UNCHANGED <<partitionVars, candidates, order, wbRead>>

(* Snapshot the partitions, sorted by active memtable size, largest first *)
(* (equal sizes in any order).                                            *)
MonitorSortPartitions ==
  /\ mpc = "sort"
  /\ \E s \in SetToSeqs(Partitions) :
       /\ \A i, j \in DOMAIN s : i < j => active[s[i]] >= active[s[j]]
       /\ order' = s
  /\ mpc' = "wbFilter"
  /\ UNCHANGED <<partitionVars, candidates, wbRead>>

(* Filter out the partitions that have queued flush tasks. *)
MonitorWriteBufferFilter ==
  /\ mpc = "wbFilter"
  /\ order' = SelectSeq(order, LAMBDA p : p \notin QueuedPartitions)
  /\ mpc' = "wbRotate"
  /\ UNCHANGED <<partitionVars, candidates, wbRead>>

(* Rotate in order until a rotation returns Ok(true); then run() ends.    *)
MonitorWriteBufferRotate ==
  /\ mpc = "wbRotate"
  /\ order # <<>>
  /\ \E r \in RotateResults :
       /\ RotateMemtable(Head(order), r)
       /\ IF r = "true"
            THEN /\ order' = <<>>
                 /\ mpc' = "start"
            ELSE /\ order' = Tail(order)
                 /\ UNCHANGED mpc
  /\ UNCHANGED <<candidates, wbRead>>

(* No partition rotated: the loop ends and run() returns. *)
MonitorWriteBufferExhausted ==
  /\ mpc = "wbRotate"
  /\ order = <<>>
  /\ mpc' = "start"
  /\ UNCHANGED <<partitionVars, candidates, order, wbRead>>

Monitor ==
  \/ MonitorCheckJournal
  \/ MonitorJournalFilter
  \/ MonitorJournalRotate
  \/ MonitorReadWriteBuffer
  \/ MonitorReadQueued
  \/ MonitorSortPartitions
  \/ MonitorWriteBufferFilter
  \/ MonitorWriteBufferRotate
  \/ MonitorWriteBufferExhausted

Next ==
  \/ Monitor
  \/ \E p \in Partitions : Write(p) \/ ExternalRotate(p) \/ FlushDone(p)

(* The monitor is called on a cadence forever and flush workers work off  *)
(* their queue: both weakly fair.  Writers and other rotations are not.   *)
Fairness ==
  /\ WF_vars(Monitor)
  /\ \A p \in Partitions : WF_vars(FlushDone(p))

Spec == Init /\ [][Next]_vars /\ Fairness

-----------------------------------------------------------------------------

TypeOK ==
  /\ active \in [Partitions -> 0 .. MaxWrites]
  /\ \A p \in Partitions :
       \A i \in DOMAIN tasks[p] :
         tasks[p][i].size \in 1 .. MaxWrites /\ tasks[p][i].journal \in oldest .. current
  /\ wbSize \in 0 .. MaxWrites
  /\ DOMAIN journals = oldest .. current
  /\ \A j \in DOMAIN journals : journals[j].pins \subseteq Partitions
  /\ mpc \in {"start", "journalFilter", "journalRotate", "readWb", "readQueued",
              "sort", "wbFilter", "wbRotate"}
  /\ candidates \subseteq Partitions
  /\ order \in Seq(Partitions)

(* Not above half of either limit (2 * size <= max, written with \div).   *)
Relieved ==
  /\ JournalSize <= MaxJournalingSize \div 2
  /\ wbSize - QueuedSize <= MaxWriteBufferSize \div 2

(* Backpressure works (spec 4.6): once writes stop, the journal and the   *)
(* unqueued write buffer eventually stay at or below half their limits:   *)
(* run() rotates what the journal pins and the largest memtables, and the *)
(* flush workers drain the queue and release the journals.                *)
PressureRelieved == <>[]Relieved
=============================================================================
